---- MODULE Spec2Model ----
(***************************************************************************)
(* A model of the gopayamgostar client: the error classifier               *)
(* (checkForError), the endpoint operations built on it, and the flexible  *)
(* JSON codecs of models.go.                                               *)
(*                                                                         *)
(* A Go string or []byte is a sequence of one-character strings, so that   *)
(* concatenation, strings.Contains and byte inspection are computed as the *)
(* code computes them.  A Go error, response or pointer, which may be nil, *)
(* is a record with a "kind" field; nil is [kind |-> "nil"].               *)
(***************************************************************************)
EXTENDS Integers, Sequences, FiniteSets, TLC

VARIABLES
    client,      \* the GoPayamgostar value: basePath and the Config path table
    op,          \* the operation that ran last ("none" after construction)
    ctxMsg,      \* the errMessage that operation handed to checkForError
    req,         \* the request descriptor that operation sent
    resp,        \* the *resty.Response the transport returned (or nil)
    terr,        \* the error the transport returned (or nil)
    classified,  \* what checkForError returned for (resp, terr, ctxMsg)
    retErr,      \* the error the operation returned to its caller
    retVal,      \* the result the operation returned to its caller
    decoded,     \* TRUE iff the operation itself decoded the response body
    args,        \* the arguments that operation was called with
    wire,        \* codec: the bytes handed to UnmarshalJSON
    sent,        \* codec: the value the sender encoded into wire (ghost)
    recv,        \* codec: the receiver, a StringOrArray value
    uerr,        \* codec: the error UnmarshalJSON returned
    out,         \* codec: the bytes MarshalJSON returned
    cpc,         \* codec: "start", "unmarshalled" or "marshalled"
    ewire,       \* EnforcedString: the payload bytes a sender wrote
    eq,          \* EnforcedString: UnmarshalJSON of the payload between quotes
    ea,          \* EnforcedString: UnmarshalJSON of the payload as it is
    eval,        \* EnforcedString: the value MarshalJSON is called on
    eout,        \* EnforcedString: the bytes MarshalJSON returned
    eb,          \* EnforcedString: UnmarshalJSON of those bytes
    epc,         \* EnforcedString: the position of the run
    hooks,       \* tests: the OnBeforeRequest interceptors of the resty client
    tlast,       \* tests: the last call that returned, and what it returned
    callers,     \* concurrent callers: each caller's call in progress
    sinks,       \* concurrent callers: the live HTTPErrorResponse values on the heap
    nreq,        \* concurrent callers: how many requests the transport has created
    issued       \* concurrent callers: the deviceIds of the AuthRequests built so far

clientVars == <<client, op, ctxMsg, req, resp, terr, classified, retErr, retVal, decoded, args>>
codecVars == <<wire, sent, recv, uerr, out, cpc>>
enforcedVars == <<ewire, eq, ea, eval, eout, eb, epc>>
testVars == <<hooks, tlast>>
callerVars == <<callers, sinks, nreq, issued>>
vars == <<client, op, ctxMsg, req, resp, terr, classified, retErr, retVal, decoded, args,
          wire, sent, recv, uerr, out, cpc,
          ewire, eq, ea, eval, eout, eb, epc,
          hooks, tlast,
          callers, sinks, nreq, issued>>

\* the variables the actions of each specification leave alone
outsideClient == <<codecVars, enforcedVars, testVars, callerVars>>
outsideCodec == <<clientVars, enforcedVars, testVars, callerVars>>
outsideEnforced == <<clientVars, codecVars, testVars, callerVars>>
outsideTests == <<clientVars, codecVars, enforcedVars, callerVars>>
outsideCallers == <<op, ctxMsg, req, resp, terr, classified, retErr, retVal, decoded, args,
                    codecVars, enforcedVars, testVars>>

----------------------------------------------------------------------------
(* Strings *)

\* t occurs in s starting at index i
HasPrefixAt(s, t, i) ==
    /\ i + Len(t) - 1 <= Len(s)
    /\ \A k \in 1..Len(t) : s[i + k - 1] = t[k]

\* strings.Contains(s, t)
Contains(s, t) == \E i \in 1..(Len(s) + 1) : HasPrefixAt(s, t, i)

\* strings.Join(path, sep)
RECURSIVE Join(_, _)
Join(path, sep) ==
    IF Len(path) = 0 THEN <<>>
    ELSE IF Len(path) = 1 THEN path[1]
    ELSE path[1] \o sep \o Join(Tail(path), sep)

\* strings.TrimRight(s, cutset) for a one-character cutset
RECURSIVE TrimRight(_, _)
TrimRight(s, c) ==
    IF Len(s) > 0 /\ s[Len(s)] = c THEN TrimRight(SubSeq(s, 1, Len(s) - 1), c) ELSE s

ColonSpace == <<":", " ">>

\* a []string value: nil, or its elements
NilSlice == [isNil |-> TRUE, elems |-> <<>>]
Slice(elems) == [isNil |-> FALSE, elems |-> elems]

----------------------------------------------------------------------------
(* Errors *)

NilErr == [kind |-> "nil"]

\* a plain Go error value whose Error() is text (what the transport returns)
PlainError(text) == [kind |-> "error", text |-> text]

APIErrTypeUnknown == "unknown"
APIErrTypeInvalidGrant == "oauth: invalid grant"

invalidGrantNeedle == <<"i", "n", "v", "a", "l", "i", "d", "_", "g", "r", "a", "n", "t">>

\* &APIError{Code, Message, Type}
APIError(code, message, type) ==
    [kind |-> "APIError", Code |-> code, Message |-> message, Type |-> type]

\* fmt.Errorf("...%w", err): a wrapping error that is not an *APIError
WrapError(message, inner) == [kind |-> "wrapError", text |-> message, unwrap |-> inner]

\* err.Error(); APIError.Error() returns the Message
ErrorText(e) == IF e.kind = "APIError" THEN e.Message ELSE e.text

\* a faulty variant: never recognises the invalid-grant text
ParseAPIErrType_NeverGrant(err) == APIErrTypeUnknown

ParseAPIErrType(err) ==
    IF err = NilErr THEN APIErrTypeUnknown
    ELSE IF Contains(ErrorText(err), invalidGrantNeedle) THEN APIErrTypeInvalidGrant
    ELSE APIErrTypeUnknown

\* a faulty variant: drops the context message
Wrap_NoMessage(err, message) == ErrorText(err)

\* errors.Wrap(err, message).Error()
Wrap(err, message) == message \o ColonSpace \o ErrorText(err)

----------------------------------------------------------------------------
(* Responses *)

NilResp == [kind |-> "nil"]

\* resp.Error(): the request's error sink after the call.  GetRequest binds
\* it to an *HTTPErrorResponse; the transport clears it on a success status,
\* and a client-level error type makes it a value of another type.
NoDetail == [kind |-> "nil"]
OtherDetail == [kind |-> "other"]
HTTPErrorResponse(fields) == [kind |-> "HTTPErrorResponse", fields |-> fields]

\* HTTPErrorResponse.NotEmpty(): some field of the detail is non-empty
NotEmpty(e) == \E i \in 1..Len(e.fields) : Len(e.fields[i]) > 0

\* HTTPErrorResponse.String(): the non-empty fields, joined
RECURSIVE NonEmptyFields(_)
NonEmptyFields(fields) ==
    IF Len(fields) = 0 THEN <<>>
    ELSE IF Len(fields[1]) = 0 THEN NonEmptyFields(Tail(fields))
    ELSE <<fields[1]>> \o NonEmptyFields(Tail(fields))

String(e) == Join(NonEmptyFields(e.fields), ColonSpace)

\* resp.StatusCode() and resp.Status() of the responses the model draws
StatusCodes == {200, 201, 302, 400, 404}

StatusLine(code) ==
    CASE code = 200 -> <<"2", "0", "0", " ", "O", "K">>
      [] code = 201 -> <<"2", "0", "1", " ", "C", "r", "e", "a", "t", "e", "d">>
      [] code = 302 -> <<"3", "0", "2", " ", "F", "o", "u", "n", "d">>
      [] code = 400 -> <<"4", "0", "0", " ", "B", "a", "d">>
      [] code = 404 -> <<"4", "0", "4", " ", "N", "o", "t", " ", "F", "o", "u", "n", "d">>

\* a faulty variant: 400 itself is not taken for a failure
IsError_Above400(r) == r.StatusCode > 400

\* a faulty variant: everything but 200 is taken for a failure
IsError_Not200(r) == r.StatusCode # 200

\* resp.IsError(): status code > 399
IsError(r) == r.StatusCode > 399

\* resp.IsSuccess(): status code in 200..299
IsSuccess(r) == r.StatusCode > 199 /\ r.StatusCode < 300

----------------------------------------------------------------------------
(* The error classifier *)

emptyResponseText == <<"e", "m", "p", "t", "y", " ", "r", "e", "s", "p", "o", "n", "s", "e">>

\* a faulty variant: hands the transport error back unclassified
checkForError_RawErr(r, err, errMessage) ==
    IF err # NilErr THEN err
    ELSE IF r = NilResp THEN APIError(0, emptyResponseText, ParseAPIErrType(err))
    ELSE IF IsError(r) THEN
        LET e == r.Error
            msg == IF e.kind = "HTTPErrorResponse" /\ NotEmpty(e)
                   THEN r.Status \o ColonSpace \o String(e)
                   ELSE r.Status
        IN APIError(r.StatusCode, msg, ParseAPIErrType(err))
    ELSE NilErr

\* a faulty variant: wraps the empty-response text with the context message
checkForError_EmptyWrapped(r, err, errMessage) ==
    IF err # NilErr THEN
        APIError(0, Wrap(err, errMessage), ParseAPIErrType(err))
    ELSE IF r = NilResp THEN
        APIError(0, errMessage \o ColonSpace \o emptyResponseText, ParseAPIErrType(err))
    ELSE IF IsError(r) THEN
        LET e == r.Error
            msg == IF e.kind = "HTTPErrorResponse" /\ NotEmpty(e)
                   THEN r.Status \o ColonSpace \o String(e)
                   ELSE r.Status
        IN APIError(r.StatusCode, msg, ParseAPIErrType(err))
    ELSE NilErr

\* a faulty variant: always reports the raw status line
checkForError_StatusOnly(r, err, errMessage) ==
    IF err # NilErr THEN
        APIError(0, Wrap(err, errMessage), ParseAPIErrType(err))
    ELSE IF r = NilResp THEN
        APIError(0, emptyResponseText, ParseAPIErrType(err))
    ELSE IF IsError(r) THEN APIError(r.StatusCode, r.Status, ParseAPIErrType(err))
    ELSE NilErr

\* a faulty variant: on a failure status the category is taken from the
\* message built from the response
checkForError_TypeFromMessage(r, err, errMessage) ==
    IF err # NilErr THEN
        APIError(0, Wrap(err, errMessage), ParseAPIErrType(err))
    ELSE IF r = NilResp THEN
        APIError(0, emptyResponseText, ParseAPIErrType(err))
    ELSE IF IsError(r) THEN
        LET e == r.Error
            msg == IF e.kind = "HTTPErrorResponse" /\ NotEmpty(e)
                   THEN r.Status \o ColonSpace \o String(e)
                   ELSE r.Status
        IN APIError(r.StatusCode, msg, ParseAPIErrType(PlainError(msg)))
    ELSE NilErr

\* a faulty variant: a failure status of the response is looked at first
checkForError_StatusFirst(r, err, errMessage) ==
    IF r # NilResp /\ IsError(r) THEN
        LET e == r.Error
            msg == IF e.kind = "HTTPErrorResponse" /\ NotEmpty(e)
                   THEN r.Status \o ColonSpace \o String(e)
                   ELSE r.Status
        IN APIError(r.StatusCode, msg, ParseAPIErrType(err))
    ELSE IF err # NilErr THEN
        APIError(0, Wrap(err, errMessage), ParseAPIErrType(err))
    ELSE IF r = NilResp THEN
        APIError(0, emptyResponseText, ParseAPIErrType(err))
    ELSE NilErr

checkForError(r, err, errMessage) ==
    IF err # NilErr THEN
        APIError(0, Wrap(err, errMessage), ParseAPIErrType(err))
    ELSE IF r = NilResp THEN
        APIError(0, emptyResponseText, ParseAPIErrType(err))
    ELSE IF IsError(r) THEN
        LET e == r.Error
            msg == IF e.kind = "HTTPErrorResponse" /\ NotEmpty(e)
                   THEN r.Status \o ColonSpace \o String(e)
                   ELSE r.Status
        IN APIError(r.StatusCode, msg, ParseAPIErrType(err))
    ELSE NilErr

----------------------------------------------------------------------------
(* Response bodies and encoding/json on them *)

\* A body is described by its JSON structure: no bytes at all, malformed
\* text, a JSON array, the JSON null, or a JSON object; of an object, what
\* its crmId and data members are.
Body(kind, crmId, data) == [kind |-> kind, crmId |-> crmId, data |-> data]

Bodies ==
    { Body(k, "absent", "absent") : k \in {"empty", "invalid", "array", "null"} }
    \cup { Body("object", c, "list") : c \in {"absent", "id1", "id2", "number"} }
    \cup { Body("object", "id1", "number") }

\* the JSON members a decode target declares, with the JSON type of each
getIDResultFields == {<<"crmId", "string">>}
FindResponseFields == {<<"data", "list">>}
FindFormResponseFields == {<<"data", "list">>}

\* the JSON type of member name of an object body ("absent" when missing)
MemberType(body, name) ==
    IF name = "crmId"
    THEN (IF body.crmId \in {"absent", "number"} THEN body.crmId ELSE "string")
    ELSE body.data

\* the error json.Unmarshal(body, &target) returns
UnmarshalBodyErr(body, fields) ==
    CASE body.kind = "empty" ->
           PlainError(<<"u", "n", "e", "x", "p", "e", "c", "t", "e", "d", " ", "e", "n", "d">>)
      [] body.kind = "invalid" ->
           PlainError(<<"i", "n", "v", "a", "l", "i", "d", " ", "c", "h", "a", "r">>)
      [] body.kind = "array" ->
           PlainError(<<"c", "a", "n", "n", "o", "t", " ", "u", "n", "m", "a", "r", "s", "h", "a", "l">>)
      [] body.kind = "null" -> NilErr
      [] body.kind = "object" ->
           IF \E f \in fields : MemberType(body, f[1]) \notin {"absent", f[2]}
           THEN PlainError(<<"c", "a", "n", "n", "o", "t", " ", "u", "n", "m", "a", "r", "s", "h", "a", "l">>)
           ELSE NilErr

\* the CrmId member of the struct getID decodes into ("" when not set)
DecodedCrmId(body) ==
    IF body.kind = "object" /\ body.crmId \notin {"absent", "number"} THEN body.crmId ELSE ""

----------------------------------------------------------------------------
(* Results *)

NilPtr == [kind |-> "nil"]
\* a non-nil pointer to a result struct of the given type, filled from body
\* (from = "zero": the struct was never written to)
Ptr(type, from) == [kind |-> "ptr", type |-> type, from |-> from]
\* a returned identifier string
Id(v) == [kind |-> "id", value |-> v]
\* DeletePurchase returns an error only
NoValue == [kind |-> "none"]

\* what an operation hands back: the classified error, the returned error,
\* the returned value, and whether the operation decoded the body itself
Return(c, e, v, d) == [classified |-> c, err |-> e, val |-> v, decoded |-> d]

----------------------------------------------------------------------------
(* The client and its request builders *)

urlSeparator == <<"/">>

makeURL(path) == Join(path, urlSeparator)

\* the path segments NewClient joins
segAPI == <<"a", "p", "i">>
segV2 == <<"v", "2">>
segAuth == <<"a", "u", "t", "h">>
segLogin == <<"l", "o", "g", "i", "n">>
segCrmobject == <<"c", "r", "m", "o", "b", "j", "e", "c", "t">>
segForm == <<"f", "o", "r", "m">>
segPerson == <<"p", "e", "r", "s", "o", "n">>
segInvoice == <<"i", "n", "v", "o", "i", "c", "e">>
segPurchase == <<"p", "u", "r", "c", "h", "a", "s", "e">>
segGet == <<"g", "e", "t">>
segCreate == <<"c", "r", "e", "a", "t", "e">>
segUpdate == <<"u", "p", "d", "a", "t", "e">>
segFind == <<"f", "i", "n", "d">>
segDelete == <<"d", "e", "l", "e", "t", "e">>

NewClient(basePath) ==
    [basePath |-> TrimRight(basePath, "/"),
     restyClient |-> "resty.New()",
     Config |->
        [AuthEndpoint |-> makeURL(<<segAPI, segV2, segAuth, segLogin>>),
         GetFormEndpoint |-> makeURL(<<segAPI, segV2, segCrmobject, segForm, segGet>>),
         CreateFormEndpoint |-> makeURL(<<segAPI, segV2, segCrmobject, segForm, segCreate>>),
         UpdateFormEndpoint |-> makeURL(<<segAPI, segV2, segCrmobject, segForm, segUpdate>>),
         FindFormEndpoint |-> makeURL(<<segAPI, segV2, segCrmobject, segForm, segFind>>),
         GetPersonEndpoint |-> makeURL(<<segAPI, segV2, segCrmobject, segPerson, segGet>>),
         FindPersonEndpoint |-> makeURL(<<segAPI, segV2, segCrmobject, segPerson, segFind>>),
         CreatePurchaseEndpoint |->
            makeURL(<<segAPI, segV2, segCrmobject, segInvoice, segPurchase, segCreate>>),
         DeletePurchaseEndpoint |->
            makeURL(<<segAPI, segV2, segCrmobject, segInvoice, segPurchase, segDelete>>)]]

\* a context: whether it carries a span, which tracer it carries ("nil" for
\* none), and whether that tracer's Inject succeeds
Background == [span |-> FALSE, tracer |-> "nil", injectOK |-> TRUE]

\* Header.Set(name, value)
SetHeader(r, name, value) ==
    [r EXCEPT !.Header = {h \in r.Header : h[1] # name} \cup {<<name, value>>}]

\* a faulty variant: the global tracer injects, whatever the context carries
injectTracingHeaders_AlwaysGlobal(ctx, r) ==
    IF ~ctx.span THEN r
    ELSE IF ctx.injectOK THEN SetHeader(r, "Trace", "global") ELSE r

injectTracingHeaders(ctx, r) ==
    IF ~ctx.span THEN r
    ELSE LET tracer == IF ctx.tracer = "nil" THEN "global" ELSE ctx.tracer
         IN IF ctx.injectOK THEN SetHeader(r, "Trace", tracer) ELSE r

\* g.restyClient.R().SetContext(ctx).SetError(&err), then the tracing headers
GetRequest(ctx) ==
    injectTracingHeaders(ctx,
        [ctx |-> ctx, Error |-> "HTTPErrorResponse", Token |-> "", Header |-> {},
         Body |-> [type |-> "none"], Result |-> "none", URL |-> <<>>])

GetRequestWithBearerAuthNoCache(ctx, token) ==
    SetHeader(SetHeader([GetRequest(ctx) EXCEPT !.Token = token],
                        "Content-Type", "application/json"),
              "Cache-Control", "no-cache")

\* a faulty variant: the no-cache builder under the other builder's name
GetRequestWithBearerAuth_NoCacheToo(ctx, token) == GetRequestWithBearerAuthNoCache(ctx, token)

GetRequestWithBearerAuth(ctx, token) ==
    SetHeader([GetRequest(ctx) EXCEPT !.Token = token], "Content-Type", "application/json")

\* req.SetBody(b), req.SetResult(&v) and the URL req.Post(url) is given
SetBody(r, b) == [r EXCEPT !.Body = b]
SetResult(r, type) == [r EXCEPT !.Result = type]
Post(r, url) == [r EXCEPT !.URL = url]

----------------------------------------------------------------------------
(* What the transport can hand back *)

\* longest run of filler around the text of a drawn transport error
MaxPad == 1

Filler(n) == [i \in 1..n |-> "x"]

ErrCores ==
    { invalidGrantNeedle,
      <<"i", "n", "v", "a", "l", "i", "d", " ", "g", "r", "a", "n", "t">>,
      <<"i", "n", "v", "a", "l", "i", "d", "_", "g", "r", "a", "n">>,
      <<"t", "i", "m", "e", "o", "u", "t">> }

ErrTexts ==
    { Filler(i) \o c \o Filler(j) : <<i, j, c>> \in
        { t \in (0..MaxPad) \X (0..MaxPad) \X ErrCores : t[1] + t[2] <= MaxPad } }

TransportErrs == {NilErr} \cup { PlainError(t) : t \in ErrTexts }

Details ==
    { NoDetail, OtherDetail,
      HTTPErrorResponse(<<<<>>, <<>>>>),
      HTTPErrorResponse(<<<<"b", "a", "d">>, <<>>>>),
      HTTPErrorResponse(<<invalidGrantNeedle, <<"n", "o">>>>) }

Response(code, detail, body) ==
    [kind |-> "resp", StatusCode |-> code, Status |-> StatusLine(code),
     Error |-> detail, Body |-> body]

Responses ==
    {NilResp} \cup { Response(c, d, b) : <<c, d, b>> \in StatusCodes \X Details \X Bodies }

\* the transport filled the request's Result from the body (it does so only
\* for a success status whose body is a JSON object)
CanParse(r) == r # NilResp /\ IsSuccess(r) /\ r.Body.kind = "object"

\* one round trip: the response, the error, and whether Result was filled
Outcomes(hasResult) ==
    { [resp |-> r, terr |-> e, parsed |-> FALSE] : <<r, e>> \in Responses \X TransportErrs }
    \cup { [resp |-> r, terr |-> e, parsed |-> TRUE] :
             <<r, e>> \in { x \in Responses \X TransportErrs : hasResult /\ CanParse(x[1]) } }

\* the struct behind a returned pointer: filled from the body, or zero
ZeroValue == Body("zero", "absent", "absent")
Filled(o) == IF o.parsed THEN o.resp.Body ELSE ZeroValue

----------------------------------------------------------------------------
(* The endpoint operations *)

\* the errMessage constant of each operation
adminAuthErrMessage ==
    <<"c", "o", "u", "l", "d", " ", "n", "o", "t", " ", "g", "e", "t", " ", "t", "o", "k", "e", "n">>
userAuthErrMessage ==
    <<"c", "o", "u", "l", "d", " ", "n", "o", "t", " ", "g", "e", "t", " ", "t", "o", "k", "e", "n", "(", "c", "u", "s", "t", "o", "m", "e", "r", ")">>
getPersonErrMessage ==
    <<"c", "o", "u", "l", "d", " ", "n", "o", "t", " ", "g", "e", "t", " ", "u", "s", "e", "r", " ", "i", "n", "f", "o">>
getFormErrMessage ==
    <<"c", "o", "u", "l", "d", " ", "n", "o", "t", " ", "g", "e", "t", " ", "f", "o", "r", "m", " ", "i", "n", "f", "o">>
createPurchaseErrMessage ==
    <<"c", "o", "u", "l", "d", " ", "n", "o", "t", " ", "c", "r", "e", "a", "t", "e", " ", "p", "u", "r", "c", "h", "a", "s", "e">>
deletePurchaseErrMessage ==
    <<"c", "o", "u", "l", "d", " ", "n", "o", "t", " ", "d", "e", "l", "e", "t", "e", " ", "p", "u", "r", "c", "h", "a", "s", "e">>
findPersonErrMessage ==
    <<"c", "o", "u", "l", "d", " ", "f", "i", "n", "d", " ", "p", "e", "r", "s", "o", "n">>
findFormErrMessage ==
    <<"c", "o", "u", "l", "d", " ", "f", "i", "n", "d", " ", "f", "o", "r", "m">>
updateFormErrMessage ==
    <<"c", "o", "u", "l", "d", " ", "n", "o", "t", " ", "u", "p", "d", "a", "t", "e", " ", "f", "o", "r", "m">>

\* the text fmt.Errorf puts before the decode error in getID
getIDErrPrefix ==
    <<"f", "a", "i", "l", "e", "d", " ", "t", "o", " ", "u", "n", "m", "a", "r", "s", "h", "a", "l", " ", "r", "e", "s", "p", "o", "n", "s", "e">>

\* getID(resp): the identifier and the error
\* a faulty variant: a body without crmId is an error
getID_RequiresCrmId(r) ==
    LET err == UnmarshalBodyErr(r.Body, getIDResultFields)
    IN IF err # NilErr \/ DecodedCrmId(r.Body) = ""
       THEN [id |-> "", err |-> WrapError(getIDErrPrefix, err)]
       ELSE [id |-> DecodedCrmId(r.Body), err |-> NilErr]

getID(r) ==
    LET err == UnmarshalBodyErr(r.Body, getIDResultFields)
    IN IF err # NilErr
       THEN [id |-> "", err |-> WrapError(getIDErrPrefix \o ColonSpace \o ErrorText(err), err)]
       ELSE [id |-> DecodedCrmId(r.Body), err |-> NilErr]

\* Each XReturn(o) is operation X from the transport's answer o onwards.

AdminAuthenticateReturn(o) ==
    LET e == checkForError(o.resp, o.terr, adminAuthErrMessage)
    IN IF e # NilErr THEN Return(e, e, NilPtr, FALSE)
       ELSE Return(e, NilErr, Ptr("JWT", Filled(o)), FALSE)

UserAuthenticateReturn(o) ==
    LET e == checkForError(o.resp, o.terr, userAuthErrMessage)
    IN IF e # NilErr THEN Return(e, e, NilPtr, FALSE)
       ELSE Return(e, NilErr, Ptr("JWT", Filled(o)), FALSE)

GetPersonInfoByIdReturn(o) ==
    LET e == checkForError(o.resp, o.terr, getPersonErrMessage)
    IN IF e # NilErr THEN Return(e, e, NilPtr, FALSE)
       ELSE Return(e, NilErr, Ptr("PersonInfo", Filled(o)), FALSE)

GetFormInfoByIdReturn(o) ==
    LET e == checkForError(o.resp, o.terr, getFormErrMessage)
    IN IF e # NilErr THEN Return(e, e, NilPtr, FALSE)
       ELSE Return(e, NilErr, Ptr("FormInfo", Filled(o)), FALSE)

\* a faulty variant: extracts the identifier before looking at the error
CreatePurchaseReturn_DecodeFirst(o) ==
    LET e == checkForError(o.resp, o.terr, createPurchaseErrMessage)
    IN IF o.resp # NilResp /\ getID(o.resp).err = NilErr
       THEN Return(e, e, Id(getID(o.resp).id), TRUE)
       ELSE Return(e, e, Id(""), o.resp # NilResp)

CreatePurchaseReturn(o) ==
    LET e == checkForError(o.resp, o.terr, createPurchaseErrMessage)
    IN IF e # NilErr THEN Return(e, e, Id(""), FALSE)
       ELSE LET g == getID(o.resp)
            IN IF g.err # NilErr THEN Return(e, g.err, Id(""), TRUE)
               ELSE Return(e, NilErr, Id(g.id), TRUE)

DeletePurchaseReturn(o) ==
    LET e == checkForError(o.resp, o.terr, deletePurchaseErrMessage)
    IN Return(e, e, NoValue, FALSE)

\* a faulty variant: drops the decode error and returns the result anyway
FindPersonByNameReturn_NoDecodeErr(o) ==
    LET e == checkForError(o.resp, o.terr, findPersonErrMessage)
    IN IF e # NilErr THEN Return(e, e, NilPtr, FALSE)
       ELSE Return(e, NilErr, Ptr("FindResponse", o.resp.Body), TRUE)

FindPersonByNameReturn(o) ==
    LET e == checkForError(o.resp, o.terr, findPersonErrMessage)
    IN IF e # NilErr THEN Return(e, e, NilPtr, FALSE)
       ELSE LET err == UnmarshalBodyErr(o.resp.Body, FindResponseFields)
            IN IF err # NilErr
               THEN Return(e, WrapError(findPersonErrMessage \o ColonSpace \o ErrorText(err), err),
                           NilPtr, TRUE)
               ELSE Return(e, NilErr, Ptr("FindResponse", o.resp.Body), TRUE)

FindFormReturn(o) ==
    LET e == checkForError(o.resp, o.terr, findFormErrMessage)
    IN IF e # NilErr THEN Return(e, e, NilPtr, FALSE)
       ELSE LET err == UnmarshalBodyErr(o.resp.Body, FindFormResponseFields)
            IN IF err # NilErr
               THEN Return(e, WrapError(findFormErrMessage \o ColonSpace \o ErrorText(err), err),
                           NilPtr, TRUE)
               ELSE Return(e, NilErr, Ptr("FindFormResponse", o.resp.Body), TRUE)

UpdateFormReturn(o) ==
    LET e == checkForError(o.resp, o.terr, updateFormErrMessage)
    IN IF e # NilErr THEN Return(e, e, Id(""), FALSE)
       ELSE LET g == getID(o.resp)
            IN IF g.err # NilErr THEN Return(e, g.err, Id(""), TRUE)
               ELSE Return(e, NilErr, Id(g.id), TRUE)

\* the two operations of the package at the module root (its first version)

PostAuthReturn(o) ==
    LET e == checkForError(o.resp, o.terr, adminAuthErrMessage)
    IN IF e # NilErr THEN Return(e, e, NilPtr, FALSE)
       ELSE Return(e, NilErr, Ptr("JWT", Filled(o)), FALSE)

GetPersonInfoReturn(o) ==
    LET e == checkForError(o.resp, o.terr, getPersonErrMessage)
    IN IF e # NilErr THEN Return(e, e, NilPtr, FALSE)
       ELSE Return(e, NilErr, Ptr("PersonInfo", Filled(o)), FALSE)

----------------------------------------------------------------------------
(* Actions: one call of one operation, from its arguments to its return *)

BasePaths == { <<"h">>, <<"h", "/">>, <<"h", "/", "/">>, <<"p", "/">> }
Usernames == {"admin"}
Passwords == {"secret"}
DeviceIds == {"uuid1", "uuid2"}
Tokens == {"t1", "t2"}
CrmIds == {"c1"}
TypeKeys == {"k1"}
Names == {"n1"}
QueryLists ==
    { <<>>,
      << [LogicalOperator |-> 0, Operator |-> 0, Field |-> "TrackingNumber", Value |-> "v1"],
         [LogicalOperator |-> 0, Operator |-> 0, Field |-> "DepositAmount", Value |-> "v2"] >> }
Purchases == {[type |-> "CreatePurchase"]}
UpdateFormRequests == {[type |-> "UpdateFormRequest"]}

NoRequest == [type |-> "none"]
NoArgs == [type |-> "none"]

\* the caller receives ret; the model records the call (one call at a time:
\* a call starts when the previous one has been discarded)
Finish(name, a, msg, request, o, ret) ==
    /\ op' = name
    /\ args' = a
    /\ ctxMsg' = msg
    /\ req' = request
    /\ resp' = o.resp
    /\ terr' = o.terr
    /\ classified' = ret.classified
    /\ retErr' = ret.err
    /\ retVal' = ret.val
    /\ decoded' = ret.decoded
    /\ UNCHANGED client
    /\ UNCHANGED outsideClient

Endpoint(path) == client.basePath \o <<"/">> \o path

AdminAuthenticate ==
    /\ op = "none"
    /\ \E username \in Usernames, password \in Passwords, deviceId \in DeviceIds,
       o \in Outcomes(TRUE) :
        LET model == [type |-> "AuthRequest", Username |-> username, Password |-> password,
                      PlatformType |-> 1, DeviceId |-> deviceId]
            r == Post(SetResult(SetBody(GetRequest(Background), model), "JWT"),
                      Endpoint(client.Config.AuthEndpoint))
        IN Finish("AdminAuthenticate",
                  [username |-> username, password |-> password],
                  adminAuthErrMessage, r, o, AdminAuthenticateReturn(o))

UserAuthenticate ==
    /\ op = "none"
    /\ \E username \in Usernames, password \in Passwords, deviceId \in DeviceIds,
       o \in Outcomes(TRUE) :
        LET model == [type |-> "AuthRequest", Username |-> username, Password |-> password,
                      PlatformType |-> 1, DeviceId |-> deviceId]
            r == Post(SetResult(SetBody(GetRequest(Background), model), "JWT"),
                      Endpoint(client.Config.AuthEndpoint))
        IN Finish("UserAuthenticate",
                  [username |-> username, password |-> password],
                  userAuthErrMessage, r, o, UserAuthenticateReturn(o))

GetPersonInfoById ==
    /\ op = "none"
    /\ \E accessToken \in Tokens, crmId \in CrmIds, o \in Outcomes(TRUE) :
        LET model == [type |-> "GetRequest", ID |-> crmId, ShowPreviews |-> FALSE,
                      ShowExtendedPreviews |-> TRUE]
            r == Post(SetResult(SetBody(GetRequestWithBearerAuth(Background, accessToken),
                                        model), "PersonInfo"),
                      Endpoint(client.Config.GetPersonEndpoint))
        IN Finish("GetPersonInfoById",
                  [accessToken |-> accessToken, crmId |-> crmId],
                  getPersonErrMessage, r, o, GetPersonInfoByIdReturn(o))

GetFormInfoById ==
    /\ op = "none"
    /\ \E accessToken \in Tokens, crmId \in CrmIds, o \in Outcomes(TRUE) :
        LET model == [type |-> "GetRequest", ID |-> crmId, ShowPreviews |-> TRUE,
                      ShowExtendedPreviews |-> TRUE]
            r == Post(SetResult(SetBody(GetRequestWithBearerAuth(Background, accessToken),
                                        model), "FormInfo"),
                      Endpoint(client.Config.GetFormEndpoint))
        IN Finish("GetFormInfoById",
                  [accessToken |-> accessToken, crmId |-> crmId],
                  getFormErrMessage, r, o, GetFormInfoByIdReturn(o))

CreatePurchase ==
    /\ op = "none"
    /\ \E accessToken \in Tokens, purchase \in Purchases, o \in Outcomes(FALSE) :
        LET r == Post(SetBody(GetRequestWithBearerAuth(Background, accessToken), purchase),
                      Endpoint(client.Config.CreatePurchaseEndpoint))
        IN Finish("CreatePurchase",
                  [accessToken |-> accessToken, purchase |-> purchase],
                  createPurchaseErrMessage, r, o, CreatePurchaseReturn(o))

DeletePurchase ==
    /\ op = "none"
    /\ \E accessToken \in Tokens, purchaseID \in CrmIds, o \in Outcomes(FALSE) :
        LET request == [type |-> "DeleteRequest", Id |-> purchaseID, Option |-> 1]
            r == Post(SetBody(GetRequestWithBearerAuth(Background, accessToken), request),
                      Endpoint(client.Config.DeletePurchaseEndpoint))
        IN Finish("DeletePurchase",
                  [accessToken |-> accessToken, purchaseID |-> purchaseID],
                  deletePurchaseErrMessage, r, o, DeletePurchaseReturn(o))

FindPersonByName ==
    /\ op = "none"
    /\ \E accessToken \in Tokens, typeKey \in TypeKeys, firstName \in Names, lastName \in Names,
       o \in Outcomes(FALSE) :
        LET request ==
                [type |-> "FindRequest", TypeKey |-> typeKey,
                 Queries |->
                    << [LogicalOperator |-> 0, Operator |-> 0, Field |-> "FirstName",
                        Value |-> firstName],
                       [LogicalOperator |-> 0, Operator |-> 0, Field |-> "LastName",
                        Value |-> lastName] >>,
                 PageNumber |-> 1, PageSize |-> 10]
            r == Post(SetBody(GetRequestWithBearerAuthNoCache(Background, accessToken), request),
                      Endpoint(client.Config.FindPersonEndpoint))
        IN Finish("FindPersonByName",
                  [accessToken |-> accessToken, typeKey |-> typeKey,
                   firstName |-> firstName, lastName |-> lastName],
                  findPersonErrMessage, r, o, FindPersonByNameReturn(o))

FindForm ==
    /\ op = "none"
    /\ \E accessToken \in Tokens, typeKey \in TypeKeys, queries \in QueryLists,
       o \in Outcomes(FALSE) :
        LET request == [type |-> "FindRequest", TypeKey |-> typeKey, Queries |-> queries,
                        PageNumber |-> 1, PageSize |-> 10]
            r == Post(SetBody(GetRequestWithBearerAuthNoCache(Background, accessToken), request),
                      Endpoint(client.Config.FindFormEndpoint))
        IN Finish("FindForm",
                  [accessToken |-> accessToken, typeKey |-> typeKey, queries |-> queries],
                  findFormErrMessage, r, o, FindFormReturn(o))

UpdateForm ==
    /\ op = "none"
    /\ \E accessToken \in Tokens, request \in UpdateFormRequests, o \in Outcomes(FALSE) :
        LET r == Post(SetBody(GetRequestWithBearerAuthNoCache(Background, accessToken), request),
                      Endpoint(client.Config.UpdateFormEndpoint))
        IN Finish("UpdateForm",
                  [accessToken |-> accessToken, request |-> request],
                  updateFormErrMessage, r, o, UpdateFormReturn(o))

\* PostAuth and GetPersonInfo of the package at the module root; GetPersonInfo
\* sets no body and posts to the path of the Config table as it is
PostAuth ==
    /\ op = "none"
    /\ \E username \in Usernames, password \in Passwords, deviceId \in DeviceIds,
       o \in Outcomes(TRUE) :
        LET model == [type |-> "AuthRequest", Username |-> username, Password |-> password,
                      PlatformType |-> 1, DeviceId |-> deviceId]
            r == Post(SetResult(SetBody(GetRequest(Background), model), "JWT"),
                      Endpoint(client.Config.AuthEndpoint))
        IN Finish("PostAuth",
                  [username |-> username, password |-> password],
                  adminAuthErrMessage, r, o, PostAuthReturn(o))

GetPersonInfo ==
    /\ op = "none"
    /\ \E accessToken \in Tokens, crmId \in CrmIds, o \in Outcomes(TRUE) :
        LET r == Post(SetResult(GetRequestWithBearerAuth(Background, accessToken), "PersonInfo"),
                      client.Config.GetPersonEndpoint)
        IN Finish("GetPersonInfo",
                  [accessToken |-> accessToken, crmId |-> crmId],
                  getPersonErrMessage, r, o, GetPersonInfoReturn(o))

\* the contexts a caller hands to a request builder
Contexts ==
    { [span |-> sp, tracer |-> tr, injectOK |-> ok] :
        <<sp, tr, ok>> \in BOOLEAN \X {"nil", "ctxTracer"} \X BOOLEAN }

\* no round trip was made
NoOutcome == [resp |-> NilResp, terr |-> NilErr, parsed |-> FALSE]

\* the three request builders, called on their own
CallGetRequest ==
    /\ op = "none"
    /\ \E ctx \in Contexts :
        Finish("GetRequest", [ctx |-> ctx], <<>>, GetRequest(ctx), NoOutcome,
               Return(NilErr, NilErr, NoValue, FALSE))

CallGetRequestWithBearerAuth ==
    /\ op = "none"
    /\ \E ctx \in Contexts, token \in Tokens :
        Finish("GetRequestWithBearerAuth", [ctx |-> ctx, token |-> token], <<>>,
               GetRequestWithBearerAuth(ctx, token), NoOutcome,
               Return(NilErr, NilErr, NoValue, FALSE))

CallGetRequestWithBearerAuthNoCache ==
    /\ op = "none"
    /\ \E ctx \in Contexts, token \in Tokens :
        Finish("GetRequestWithBearerAuthNoCache", [ctx |-> ctx, token |-> token], <<>>,
               GetRequestWithBearerAuthNoCache(ctx, token), NoOutcome,
               Return(NilErr, NilErr, NoValue, FALSE))

\* checkForError called on its own, with a context message of the caller's
ContextMessages == { <<>>, <<"c", "t", "x">> }

CheckForError ==
    /\ op = "none"
    /\ \E r \in Responses, e \in TransportErrs, errMessage \in ContextMessages :
        LET c == checkForError(r, e, errMessage)
        IN Finish("checkForError", NoArgs, errMessage, NoRequest,
                  [resp |-> r, terr |-> e, parsed |-> FALSE], Return(c, c, NoValue, FALSE))

\* the caller is done with what a call returned; the per-call values (the
\* request descriptor, the response, the errors) are dropped
Discard ==
    /\ op # "none"
    /\ op' = "none"
    /\ ctxMsg' = <<>>
    /\ req' = NoRequest
    /\ resp' = NilResp
    /\ terr' = NilErr
    /\ classified' = NilErr
    /\ retErr' = NilErr
    /\ retVal' = NoValue
    /\ decoded' = FALSE
    /\ args' = NoArgs
    /\ UNCHANGED client
    /\ UNCHANGED outsideClient

----------------------------------------------------------------------------
(* The specification of the client *)

\* the per-call values before any call
NoCallYet ==
    /\ op = "none"
    /\ ctxMsg = <<>>
    /\ req = NoRequest
    /\ resp = NilResp
    /\ terr = NilErr
    /\ classified = NilErr
    /\ retErr = NilErr
    /\ retVal = NoValue
    /\ decoded = FALSE
    /\ args = NoArgs

\* the codec variables before any codec call
CodecAtStart ==
    /\ wire = <<>>
    /\ sent = [kind |-> "none"]
    /\ recv = NilSlice
    /\ uerr = NilErr
    /\ out = <<>>
    /\ cpc = "start"

\* what a call of EnforcedString.UnmarshalJSON left: the receiver, the
\* error, and whether the call panicked
NotCalled == [s |-> <<>>, err |-> NilErr, panic |-> FALSE]

EnforcedAtStart ==
    /\ ewire = <<>>
    /\ eq = NotCalled
    /\ ea = NotCalled
    /\ eval = <<>>
    /\ eout = <<>>
    /\ eb = NotCalled
    /\ epc = "start"

\* a call record for "no call"
NoCall == [op |-> "none", nth |-> 0]

\* resty.New(): no interceptor; and no call made yet
TestsAtStart ==
    /\ hooks = <<>>
    /\ tlast = NoCall

\* the callers of the client, none of them in a call
Callers == {"caller1", "caller2"}

Idle == [pc |-> "idle"]

\* no caller in a call, nothing created yet
CallersAtStart ==
    /\ callers = [c \in Callers |-> Idle]
    /\ sinks = <<>>
    /\ nreq = 0
    /\ issued = <<>>

Init ==
    /\ \E basePath \in BasePaths : client = NewClient(basePath)
    /\ NoCallYet
    /\ CodecAtStart
    /\ EnforcedAtStart
    /\ TestsAtStart
    /\ CallersAtStart

Next ==
    \/ AdminAuthenticate
    \/ UserAuthenticate
    \/ GetPersonInfoById
    \/ GetFormInfoById
    \/ CreatePurchase
    \/ DeletePurchase
    \/ FindPersonByName
    \/ FindForm
    \/ UpdateForm
    \/ PostAuth
    \/ GetPersonInfo
    \/ CallGetRequest
    \/ CallGetRequestWithBearerAuth
    \/ CallGetRequestWithBearerAuthNoCache
    \/ CheckForError
    \/ Discard

Spec == Init /\ [][Next]_vars

----------------------------------------------------------------------------
(* The client of the tests: transport retries and the request-failing      *)
(* interceptor                                                             *)

\* the endpoint operations of src/client.go
EndpointOps ==
    { "AdminAuthenticate", "UserAuthenticate", "GetPersonInfoById", "GetFormInfoById",
      "FindPersonByName", "FindForm", "UpdateForm", "CreatePurchase", "DeletePurchase" }

\* SetRetryCount(10) of NewClientWithDebug
RetryCount == 10

unknownErrorText == <<"u", "n", "k", "n", "o", "w", "n", "_", "e", "r", "r", "o", "r">>
clientScopeText ==
    <<"C", "a", "c", "h", "e", "d", " ", "c", "l", "i", "e", "n", "t", "S", "c", "o", "p", "e", " ", "n", "o", "t", " ", "f", "o", "u", "n", "d">>

\* the retry condition of NewClientWithDebug
cond(r, err) ==
    /\ r # NilResp
    /\ IsError(r)
    /\ r.Error.kind = "HTTPErrorResponse"
    /\ \/ Contains(String(r.Error), clientScopeText)
       \/ Contains(String(r.Error), unknownErrorText)

\* the error the interceptor makes when it is given none
requestErrorText == <<"a", "n", " ", "e", "r", "r", "o", "r", " ", "f", "o", "r", " ", "r", "e", "q", "u", "e", "s", "t">>

\* the closure FailRequest installs: its captured skipN, failN and err, and
\* for the record the counts it was installed with, the number of requests
\* it has run on (counted no further than one past skip0 + fail0, from where
\* on every request is a later one), and what it did to the latest request
Interceptor(err, failN, skipN) ==
    [skipN |-> skipN, failN |-> failN, err |-> err,
     skip0 |-> skipN, fail0 |-> failN, seen |-> 0, verdict |-> "none"]

\* the record of one more request
Counted(h) == IF h.seen > h.skip0 + h.fail0 THEN h.seen ELSE h.seen + 1

\* a faulty variant: fails first and skips afterwards
FailRequestHook_FailFirst(h) ==
    IF h.failN > 0 THEN
        LET e == IF h.err = NilErr THEN PlainError(requestErrorText) ELSE h.err
        IN [h |-> [h EXCEPT !.failN = @ - 1, !.err = e, !.seen = Counted(h), !.verdict = "fail"],
            err |-> e]
    ELSE [h |-> [h EXCEPT !.skipN = IF @ > 0 THEN @ - 1 ELSE @, !.seen = Counted(h),
                          !.verdict = "pass"],
          err |-> NilErr]

\* one run of the closure on a request: the closure afterwards, the error
FailRequestHook(h) ==
    IF h.skipN > 0 THEN
        [h |-> [h EXCEPT !.skipN = @ - 1, !.seen = Counted(h), !.verdict = "pass"], err |-> NilErr]
    ELSE IF h.failN = 0 THEN
        [h |-> [h EXCEPT !.seen = Counted(h), !.verdict = "pass"], err |-> NilErr]
    ELSE
        LET e == IF h.err = NilErr THEN PlainError(requestErrorText) ELSE h.err
        IN [h |-> [h EXCEPT !.failN = @ - 1, !.err = e, !.seen = Counted(h), !.verdict = "fail"],
            err |-> e]

\* the transport runs the interceptors in the order they were installed and
\* stops at the first error
RECURSIVE RunHooks(_)
RunHooks(hs) ==
    IF Len(hs) = 0 THEN [hooks |-> <<>>, err |-> NilErr]
    ELSE LET first == FailRequestHook(Head(hs))
         IN IF first.err # NilErr
            THEN [hooks |-> <<first.h>> \o [k \in 1..(Len(hs) - 1) |->
                                              [Tail(hs)[k] EXCEPT !.verdict = "none"]],
                  err |-> first.err]
            ELSE LET rest == RunHooks(Tail(hs))
                 IN [hooks |-> <<first.h>> \o rest.hooks, err |-> rest.err]

\* most calls of one test
MaxCalls == 3

FailCounts == {0, 1, 2}
SkipCounts == {0, 1, 2}

\* the operations whose request carries a SetResult target
SetResultOps ==
    {"AdminAuthenticate", "UserAuthenticate", "GetPersonInfoById", "GetFormInfoById"}

\* what the server, or the network, answers to a request that reached it
Answers(o) ==
    { [resp |-> Response(200, NoDetail, Body("object", "id1", "list")), terr |-> NilErr,
       parsed |-> o \in SetResultOps],
      [resp |-> Response(400, HTTPErrorResponse(<<unknownErrorText, <<>>>>),
                         Body("object", "absent", "absent")),
       terr |-> NilErr, parsed |-> FALSE],
      [resp |-> Response(404, NoDetail, Body("empty", "absent", "absent")), terr |-> NilErr,
       parsed |-> FALSE],
      [resp |-> NilResp, terr |-> PlainError(<<"t", "i", "m", "e", "o", "u", "t">>),
       parsed |-> FALSE] }

\* a faulty variant: an attempt an interceptor failed is tried once more
Execute_RetryIntercepted(hs, attempt, n, final) ==
    LET h == RunHooks(hs)
        again == RunHooks(h.hooks)
    IN IF h.err = NilErr
       THEN [hooks |-> h.hooks, ans |-> final, intercepted |-> FALSE, requests |-> 1]
       ELSE IF again.err = NilErr
       THEN [hooks |-> again.hooks, ans |-> final, intercepted |-> FALSE, requests |-> 2]
       ELSE [hooks |-> again.hooks,
             ans |-> [resp |-> NilResp, terr |-> again.err, parsed |-> FALSE],
             intercepted |-> TRUE, requests |-> 2]

\* req.Post(url) on the tests' client: the attempts of the transport from
\* attempt number attempt on, when the server's answer to each of the first
\* n attempts meets the retry condition and its answer after them is final.
\* The interceptors run before every attempt; an interceptor's error ends
\* the call with no response and that error, and is not retried.
RECURSIVE Execute(_, _, _, _)
Execute(hs, attempt, n, final) ==
    LET h == RunHooks(hs)
    IN IF h.err # NilErr
       THEN [hooks |-> h.hooks, ans |-> [resp |-> NilResp, terr |-> h.err, parsed |-> FALSE],
             intercepted |-> TRUE, requests |-> attempt + 1]
       ELSE IF attempt < n THEN Execute(h.hooks, attempt + 1, n, final)
       ELSE [hooks |-> h.hooks, ans |-> final, intercepted |-> FALSE, requests |-> attempt + 1]

\* operation o from the transport's answer onwards
OpReturn(o, ans) ==
    CASE o = "AdminAuthenticate" -> AdminAuthenticateReturn(ans)
      [] o = "UserAuthenticate" -> UserAuthenticateReturn(ans)
      [] o = "GetPersonInfoById" -> GetPersonInfoByIdReturn(ans)
      [] o = "GetFormInfoById" -> GetFormInfoByIdReturn(ans)
      [] o = "CreatePurchase" -> CreatePurchaseReturn(ans)
      [] o = "DeletePurchase" -> DeletePurchaseReturn(ans)
      [] o = "FindPersonByName" -> FindPersonByNameReturn(ans)
      [] o = "FindForm" -> FindFormReturn(ans)
      [] o = "UpdateForm" -> UpdateFormReturn(ans)

\* how many attempts of one call the server answers with a failure that meets
\* the retry condition, before its final answer
RetriedAttempts == {0, 1, RetryCount}

\* the arguments of a call that the tests vary
TestArgs(o) == IF o = "FindForm" THEN { [queries |-> q] : q \in QueryLists } ELSE {NoArgs}

\* FailRequest(client, nil, failN, skipN); a test calls it once on its client
FailRequest ==
    /\ hooks = <<>>
    /\ \E failN \in FailCounts, skipN \in SkipCounts :
        hooks' = Append(hooks, Interceptor(NilErr, failN, skipN))
    /\ UNCHANGED tlast
    /\ UNCHANGED outsideTests

\* the test makes its next call of an endpoint operation on its client and
\* gets its return
Call ==
    /\ tlast.nth < MaxCalls
    /\ \E o \in EndpointOps : \E a \in TestArgs(o) :
       \E n \in RetriedAttempts : \E final \in Answers(o) :
        /\ cond(final.resp, final.terr) => n = RetryCount
        /\ \E x \in {Execute(hooks, 0, n, final)} : \E ret \in {OpReturn(o, x.ans)} :
            /\ hooks' = x.hooks
            /\ tlast' = [op |-> o, nth |-> tlast.nth + 1, args |-> a,
                         err |-> ret.err, val |-> ret.val,
                         intercepted |-> x.intercepted, answer |-> x.ans,
                         posts |-> 1, requests |-> x.requests]
    /\ UNCHANGED outsideTests

InitTests ==
    /\ client = NewClient(<<"h">>)
    /\ NoCallYet
    /\ CodecAtStart
    /\ EnforcedAtStart
    /\ TestsAtStart
    /\ CallersAtStart

NextTests ==
    \/ FailRequest
    \/ Call

SpecTests == InitTests /\ [][NextTests]_vars

----------------------------------------------------------------------------
(* Several callers of one client: each endpoint operation is a call in     *)
(* three steps, the request built and sent, the transport's answer, and    *)
(* the operation's return                                                  *)

\* most requests the transport creates in one run
MaxRequests == 3

\* a faulty variant: every call's request is bound to one and the same value
NewErrorSink_Shared(n) == 1

\* var err HTTPErrorResponse in GetRequest: a value of its own for each call
\* (its address escapes into the request, so each call allocates one); n is
\* the number of requests created before
NewErrorSink(n) == n + 1

\* the zero HTTPErrorResponse
ZeroDetail == HTTPErrorResponse(<<<<>>, <<>>>>)

\* a faulty variant: the same deviceId at every call
NewString_Same(n) == <<"uuid", 1>>

\* uuid.NewString(): a random UUID, taken to differ from the n generated
\* before
NewString(n) == <<"uuid", n + 1>>

AuthOps == {"AdminAuthenticate", "UserAuthenticate"}
NoCacheOps == {"FindPersonByName", "FindForm", "UpdateForm"}

\* AuthRequest{Username, Password, PlatformType: 1, DeviceId}
AuthRequest(username, password, deviceId) ==
    [type |-> "AuthRequest", Username |-> username, Password |-> password,
     PlatformType |-> 1, DeviceId |-> deviceId]

\* the usernames and passwords the callers authenticate with
Logins == { <<"admin", "secret">>, <<"guest", "other">> }

\* the base path the callers' client was made with
CallersBasePath == <<"h", "/">>

\* the arguments of a call that matter here
CallerArgs(o) ==
    IF o \in AuthOps
    THEN { [username |-> l[1], password |-> l[2]] : l \in Logins }
    ELSE { [accessToken |-> "t1"] }

\* the request operation o builds from its arguments, when n deviceIds were
\* generated before
CallerRequest(o, a, n) ==
    IF o \in AuthOps
    THEN SetBody(GetRequest(Background), AuthRequest(a.username, a.password, NewString(n)))
    ELSE IF o \in NoCacheOps
    THEN GetRequestWithBearerAuthNoCache(Background, a.accessToken)
    ELSE GetRequestWithBearerAuth(Background, a.accessToken)

\* what the server, or the network, does with a request: the status code (0
\* for no response), whether the transport decodes an error detail into the
\* request's error value, and which
RoundTrips ==
    { [code |-> 200, writes |-> FALSE, detail |-> ZeroDetail,
       body |-> Body("object", "id1", "list"), terr |-> NilErr],
      [code |-> 400, writes |-> TRUE, detail |-> HTTPErrorResponse(<<unknownErrorText, <<>>>>),
       body |-> Body("object", "absent", "absent"), terr |-> NilErr],
      [code |-> 400, writes |-> TRUE, detail |-> HTTPErrorResponse(<<<<"b", "a", "d">>, <<>>>>),
       body |-> Body("object", "absent", "absent"), terr |-> NilErr],
      [code |-> 404, writes |-> FALSE, detail |-> ZeroDetail,
       body |-> Body("empty", "absent", "absent"), terr |-> NilErr],
      [code |-> 0, writes |-> FALSE, detail |-> ZeroDetail,
       body |-> Body("empty", "absent", "absent"),
       terr |-> PlainError(<<"t", "i", "m", "e", "o", "u", "t">>)] }

\* what operation o gets back from Post after round trip w, when the
\* request's error value holds detail: resp.Error() is that value, and nil
\* after a success status
AnswerSeen(o, w, detail) ==
    IF w.code = 0 THEN [resp |-> NilResp, terr |-> w.terr, parsed |-> FALSE]
    ELSE LET success == w.code > 199 /\ w.code < 300
         IN [resp |-> Response(w.code, IF success THEN NoDetail ELSE detail, w.body),
             terr |-> w.terr,
             parsed |-> success /\ o \in SetResultOps]

\* caller c calls an endpoint operation: the operation builds its request,
\* with an error value of its own, and sends it
Begin(c) ==
    /\ callers[c].pc = "idle"
    /\ nreq < MaxRequests
    /\ \E o \in EndpointOps : \E a \in CallerArgs(o) :
        LET sink == NewErrorSink(nreq)
            r == CallerRequest(o, a, Len(issued))
        IN /\ callers' = [callers EXCEPT ![c] =
                            [pc |-> "sent", op |-> o, args |-> a, id |-> nreq + 1,
                             sink |-> sink, request |-> r]]
           /\ sinks' = (sink :> ZeroDetail) @@ sinks
           /\ issued' = IF o \in AuthOps THEN Append(issued, r.Body.DeviceId) ELSE issued
    /\ nreq' = nreq + 1
    /\ UNCHANGED client
    /\ UNCHANGED outsideCallers

\* the transport gets the answer to caller c's request, and decodes the
\* error detail of a failure into the request's error value
Answer(c) ==
    /\ callers[c].pc = "sent"
    /\ \E w \in RoundTrips :
        /\ callers' = [callers EXCEPT ![c] =
                         [pc |-> "answered", op |-> @.op, args |-> @.args, id |-> @.id,
                          sink |-> @.sink, request |-> @.request, roundTrip |-> w]]
        /\ sinks' = IF w.writes THEN [sinks EXCEPT ![callers[c].sink] = w.detail] ELSE sinks
    /\ UNCHANGED <<client, nreq, issued>>
    /\ UNCHANGED outsideCallers

\* Post returns to the operation, which classifies the answer and returns
\* to caller c
Complete(c) ==
    /\ callers[c].pc = "answered"
    /\ LET k == callers[c]
           ans == AnswerSeen(k.op, k.roundTrip, sinks[k.sink])
       IN callers' = [callers EXCEPT ![c] =
                        [pc |-> "done", op |-> k.op, args |-> k.args, id |-> k.id,
                         sink |-> k.sink, request |-> k.request, roundTrip |-> k.roundTrip,
                         ret |-> OpReturn(k.op, ans)]]
    /\ UNCHANGED <<client, sinks, nreq, issued>>
    /\ UNCHANGED outsideCallers

\* caller c drops what the call returned; an error value no request refers
\* to any more is gone
Forget(c) ==
    /\ callers[c].pc = "done"
    /\ callers' = [callers EXCEPT ![c] = Idle]
    /\ LET live == { callers[d].sink : d \in { e \in Callers \ {c} : callers[e].pc # "idle" } }
       IN sinks' = [x \in live |-> sinks[x]]
    /\ UNCHANGED <<client, nreq, issued>>
    /\ UNCHANGED outsideCallers

InitCallers ==
    /\ client = NewClient(CallersBasePath)
    /\ NoCallYet
    /\ CodecAtStart
    /\ EnforcedAtStart
    /\ TestsAtStart
    /\ CallersAtStart

NextCallers ==
    \E c \in Callers :
        \/ Begin(c)
        \/ Answer(c)
        \/ Complete(c)
        \/ Forget(c)

SpecCallers == InitCallers /\ [][NextCallers]_vars

----------------------------------------------------------------------------
(* Properties of the error classifier and of the endpoint operations *)

\* the request builders, which make no round trip
RequestBuilders == {"GetRequest", "GetRequestWithBearerAuth", "GetRequestWithBearerAuthNoCache"}

\* a call that classifies a transport answer has run and its values are on
\* record
Called == op # "none" /\ op \notin RequestBuilders

\* v is a Go string
IsText(v) == DOMAIN v = 1..Len(v)

\* the values an operation returns for "no result"
NoResultValues == { NilPtr, Id(""), NoValue }

\* C1: every non-nil error checkForError returns, for every combination of
\* response (absent, success, failure) and transport error (nil, non-nil),
\* is one *APIError with a numeric code, a message and a category; its code
\* is 0 whenever the transport failed; and an endpoint operation never
\* returns the transport's own error value.
C1_UniformTypedError ==
    /\ (Called /\ classified # NilErr) =>
          /\ classified.kind = "APIError"
          /\ classified.Code \in Nat
          /\ IsText(classified.Message)
          /\ classified.Type \in {APIErrTypeUnknown, APIErrTypeInvalidGrant}
          /\ (terr # NilErr => classified.Code = 0)
    /\ (Called /\ terr # NilErr) =>
          /\ classified # NilErr
          /\ retErr # terr
          /\ retErr.kind = "APIError"

C1_Witness ==
    /\ op = "FindForm"
    /\ terr # NilErr
    /\ resp # NilResp
    /\ IsError(resp)
    /\ retErr.kind = "APIError"
    /\ retErr.Code = 0

\* C2: for a nil response, a non-nil transport error e and a context message
\* ctx, checkForError returns an error whose Code is 0 and whose Error()
\* text contains ctx.
C2_TransportErrorCarriesContext ==
    (Called /\ resp = NilResp /\ terr # NilErr) =>
        /\ classified # NilErr
        /\ classified.Code = 0
        /\ Contains(ErrorText(classified), ctxMsg)

C2_Witness ==
    /\ op = "checkForError"
    /\ resp = NilResp
    /\ terr # NilErr
    /\ ctxMsg = <<"c", "t", "x">>
    /\ classified.Code = 0

\* C3: for a response with a failure status and a nil transport error,
\* checkForError returns an error whose Code is the response's status code.
C3_FailureStatusCode ==
    (Called /\ resp # NilResp /\ terr = NilErr /\ resp.StatusCode >= 400) =>
        /\ classified # NilErr
        /\ classified.Code = resp.StatusCode

C3_Witness ==
    /\ Called
    /\ resp # NilResp
    /\ terr = NilErr
    /\ resp.StatusCode = 400
    /\ classified.kind = "APIError"
    /\ classified.Code = 400

\* C4: for a present response with a success status (2xx) and a nil
\* transport error, checkForError returns nil, whatever the context message.
C4_SuccessIsNoError ==
    (Called /\ resp # NilResp /\ terr = NilErr
        /\ resp.StatusCode >= 200 /\ resp.StatusCode <= 299) =>
        classified = NilErr

C4_Witness ==
    /\ op = "checkForError"
    /\ ctxMsg = <<"c", "t", "x">>
    /\ resp # NilResp
    /\ resp.StatusCode = 201
    /\ terr = NilErr
    /\ classified = NilErr

\* C5: with a nil transport error and an absent response, checkForError
\* returns a non-nil error whose message is "empty response" and whose code
\* is 0, whatever the context message.
C5_EmptyResponse ==
    (Called /\ resp = NilResp /\ terr = NilErr) =>
        /\ classified.kind = "APIError"
        /\ classified.Message = <<"e", "m", "p", "t", "y", " ", "r", "e", "s", "p", "o", "n", "s", "e">>
        /\ classified.Code = 0

C5_Witness ==
    /\ op = "checkForError"
    /\ ctxMsg = <<"c", "t", "x">>
    /\ resp = NilResp
    /\ terr = NilErr
    /\ classified.kind = "APIError"

\* the category checkForError gives a transport error whose text is text,
\* when the text that marks an invalid grant is marker
CategoryBy(marker, text) ==
    IF Contains(text, marker) THEN APIErrTypeInvalidGrant ELSE APIErrTypeUnknown

\* C6 as stated: on a transport error the category is the invalid-grant one
\* exactly when the error text contains "invalid grant", and "unknown"
\* otherwise; the message is the transport error wrapped with the context.
C6_Original ==
    (Called /\ terr # NilErr) =>
        /\ classified.Type =
              CategoryBy(<<"i", "n", "v", "a", "l", "i", "d", " ", "g", "r", "a", "n", "t">>,
                         terr.text)
        /\ classified.Message = ctxMsg \o <<":", " ">> \o terr.text

\* C6, amended: on a transport error the category is the invalid-grant one
\* exactly when the error text contains "invalid_grant" (with an underscore),
\* and "unknown" for every other text; the message is the context message,
\* ": ", and the transport error's text.
C6_InvalidGrantCategory ==
    (Called /\ terr # NilErr) =>
        /\ classified.Type =
              CategoryBy(<<"i", "n", "v", "a", "l", "i", "d", "_", "g", "r", "a", "n", "t">>,
                         terr.text)
        /\ classified.Message = ctxMsg \o <<":", " ">> \o terr.text

C6_Witness ==
    /\ Called
    /\ terr # NilErr
    /\ terr.text = <<"x">> \o <<"i", "n", "v", "a", "l", "i", "d", "_", "g", "r", "a", "n", "t">>
    /\ classified.Type = APIErrTypeInvalidGrant

\* the response carries a typed error detail with something in it
HasDetail(r) ==
    /\ r.Error.kind = "HTTPErrorResponse"
    /\ \E i \in 1..Len(r.Error.fields) : r.Error.fields[i] # <<>>

\* C7: for a failure status (and no transport error) the message is the
\* status line, ": " and the rendered detail when the response carries a
\* non-empty typed detail, and exactly the status line when the detail is
\* empty or is not of the typed shape.
C7_FailureMessage ==
    (Called /\ resp # NilResp /\ terr = NilErr /\ resp.StatusCode >= 400) =>
        classified.Message =
            (IF HasDetail(resp)
             THEN StatusLine(resp.StatusCode) \o <<":", " ">> \o String(resp.Error)
             ELSE StatusLine(resp.StatusCode))

C7_Witness ==
    /\ Called
    /\ resp # NilResp
    /\ terr = NilErr
    /\ resp.StatusCode = 404
    /\ HasDetail(resp)
    /\ classified.Message =
          <<"4", "0", "4", " ", "N", "o", "t", " ", "F", "o", "u", "n", "d", ":", " ", "b", "a", "d">>

\* C8: in every endpoint operation, when the classification yields an error
\* the operation returns that very error with no result (a nil pointer or
\* the empty identifier), and it does not decode the body.
C8_ClassifiedErrorNoResult ==
    (op \in EndpointOps /\ classified # NilErr) =>
        /\ retErr = classified
        /\ retVal \in NoResultValues
        /\ ~decoded

C8_Witness ==
    /\ op = "CreatePurchase"
    /\ resp # NilResp
    /\ resp.StatusCode = 400
    /\ resp.Body.kind = "object"
    /\ resp.Body.crmId = "id1"
    /\ retErr = classified
    /\ retVal = Id("")

\* the body does not decode into the result type of operation o
Undecodable(o, body) ==
    \/ body.kind \in {"empty", "invalid", "array"}
    \/ /\ body.kind = "object"
       /\ o \in {"CreatePurchase", "UpdateForm"}
       /\ body.crmId = "number"
    \/ /\ body.kind = "object"
       /\ o \in {"FindPersonByName", "FindForm"}
       /\ body.data = "number"

\* the operation returned a decode failure: an error that is no *APIError,
\* wraps a decode error and has that error's text in its own; and no result
DecodeFailureReturned ==
    /\ retErr.kind = "wrapError"
    /\ retErr.unwrap.kind = "error"
    /\ Contains(retErr.text, retErr.unwrap.text)
    /\ retErr # classified
    /\ retVal \in {NilPtr, Id("")}

\* C9 as stated: in every endpoint operation with a result, a success status
\* whose body does not decode is returned as a decode failure and no result.
C9_Original ==
    (op \in EndpointOps \ {"DeletePurchase"} /\ terr = NilErr /\ resp # NilResp
        /\ IsSuccess(resp) /\ Undecodable(op, resp.Body)) =>
        DecodeFailureReturned

SelfDecodingOps == {"FindPersonByName", "FindForm", "CreatePurchase", "UpdateForm"}

\* C9, amended: in the operations that decode the body themselves
\* (FindPersonByName, FindForm, CreatePurchase, UpdateForm) a success status
\* whose body does not decode is returned as a decode failure wrapping the
\* decode error, with no result; the other operations leave decoding to the
\* transport and never return a decode failure of their own.
C9_DecodeFailure ==
    /\ (op \in SelfDecodingOps /\ terr = NilErr /\ resp # NilResp
           /\ IsSuccess(resp) /\ Undecodable(op, resp.Body)) =>
          DecodeFailureReturned /\ decoded
    /\ (op \in EndpointOps \ SelfDecodingOps) =>
          retErr.kind # "wrapError" /\ ~decoded

C9_Witness ==
    /\ op = "FindPersonByName"
    /\ terr = NilErr
    /\ resp # NilResp
    /\ resp.StatusCode = 200
    /\ resp.Body.kind = "object"
    /\ resp.Body.data = "number"
    /\ DecodeFailureReturned

jsonContentType == <<"Content-Type", "application/json">>
noCacheDirective == <<"Cache-Control", "no-cache">>

\* r is the request base with the bearer token and the headers added
AddsOnly(r, base, token, headers) ==
    /\ r.Token = token
    /\ r.Header = base.Header \cup headers
    /\ [r EXCEPT !.Token = base.Token, !.Header = base.Header] = base

\* C18: GetRequestWithBearerAuth returns the base request of the same context
\* with nothing added but the token argument as bearer token and the JSON
\* content type; GetRequestWithBearerAuthNoCache the same plus the no-cache
\* directive; a call of any of the three builders makes no round trip and
\* changes nothing of the client, only the request it returns.
C18_BuildersAddHeadersOnly ==
    [][ op' \in RequestBuilders =>
          /\ client' = client
          /\ resp' = NilResp /\ terr' = NilErr /\ retErr' = NilErr
          /\ op' = "GetRequest" => req' = GetRequest(args'.ctx)
          /\ op' = "GetRequestWithBearerAuth" =>
                AddsOnly(req', GetRequest(args'.ctx), args'.token, {jsonContentType})
          /\ op' = "GetRequestWithBearerAuthNoCache" =>
                AddsOnly(req', GetRequest(args'.ctx), args'.token,
                         {jsonContentType, noCacheDirective}) ]_vars

C18_Witness ==
    /\ op = "GetRequestWithBearerAuth"
    /\ args.ctx.span /\ args.ctx.injectOK
    /\ args.token = "t2"
    /\ req.Token = "t2"
    /\ req.Header = {<<"Trace", "global">>, jsonContentType}
    /\ resp = NilResp

\* the fixed path of each endpoint
authLoginPath ==
    <<"a", "p", "i", "/", "v", "2", "/", "a", "u", "t", "h", "/", "l", "o", "g", "i", "n">>
personGetPath ==
    <<"a", "p", "i", "/", "v", "2", "/", "c", "r", "m", "o", "b", "j", "e", "c", "t", "/",
      "p", "e", "r", "s", "o", "n", "/", "g", "e", "t">>
formGetPath ==
    <<"a", "p", "i", "/", "v", "2", "/", "c", "r", "m", "o", "b", "j", "e", "c", "t", "/",
      "f", "o", "r", "m", "/", "g", "e", "t">>
personFindPath ==
    <<"a", "p", "i", "/", "v", "2", "/", "c", "r", "m", "o", "b", "j", "e", "c", "t", "/",
      "p", "e", "r", "s", "o", "n", "/", "f", "i", "n", "d">>
formFindPath ==
    <<"a", "p", "i", "/", "v", "2", "/", "c", "r", "m", "o", "b", "j", "e", "c", "t", "/",
      "f", "o", "r", "m", "/", "f", "i", "n", "d">>
formUpdatePath ==
    <<"a", "p", "i", "/", "v", "2", "/", "c", "r", "m", "o", "b", "j", "e", "c", "t", "/",
      "f", "o", "r", "m", "/", "u", "p", "d", "a", "t", "e">>
purchaseCreatePath ==
    <<"a", "p", "i", "/", "v", "2", "/", "c", "r", "m", "o", "b", "j", "e", "c", "t", "/",
      "i", "n", "v", "o", "i", "c", "e", "/", "p", "u", "r", "c", "h", "a", "s", "e", "/",
      "c", "r", "e", "a", "t", "e">>
purchaseDeletePath ==
    <<"a", "p", "i", "/", "v", "2", "/", "c", "r", "m", "o", "b", "j", "e", "c", "t", "/",
      "i", "n", "v", "o", "i", "c", "e", "/", "p", "u", "r", "c", "h", "a", "s", "e", "/",
      "d", "e", "l", "e", "t", "e">>

FixedPath(o) ==
    CASE o \in {"AdminAuthenticate", "UserAuthenticate", "PostAuth"} -> authLoginPath
      [] o \in {"GetPersonInfoById", "GetPersonInfo"} -> personGetPath
      [] o = "GetFormInfoById" -> formGetPath
      [] o = "FindPersonByName" -> personFindPath
      [] o = "FindForm" -> formFindPath
      [] o = "UpdateForm" -> formUpdatePath
      [] o = "CreatePurchase" -> purchaseCreatePath
      [] o = "DeletePurchase" -> purchaseDeletePath

\* a base path without the "/" it ends in
Stem(b) ==
    LET n == CHOOSE k \in 0..Len(b) :
                 /\ k = 0 \/ b[k] # "/"
                 /\ \A j \in (k + 1)..Len(b) : b[j] = "/"
    IN SubSeq(b, 1, n)

\* the endpoint operations of both versions of the package
AllEndpointOps == EndpointOps \cup {"PostAuth", "GetPersonInfo"}

\* C19: every endpoint operation posts to the base path given to NewClient,
\* without the "/" it ends in, then one "/", then the fixed path of the
\* operation's endpoint.
C19_EndpointURL ==
    op \in AllEndpointOps =>
        \E b \in BasePaths :
            /\ client = NewClient(b)
            /\ req.URL = Stem(b) \o <<"/">> \o FixedPath(op)

\* the query list of Test_FindForm: TrackingNumber and DepositAmount, each
\* with the logical operator And
TwoAndQueries ==
    << [LogicalOperator |-> 0, Operator |-> 0, Field |-> "TrackingNumber", Value |-> "v1"],
       [LogicalOperator |-> 0, Operator |-> 0, Field |-> "DepositAmount", Value |-> "v2"] >>

\* what an interceptor installed with skip0 and fail0 is to do to the request
\* it sees as number h.seen
Expected(h) ==
    IF h.seen <= h.skip0 THEN "pass"
    ELSE IF h.seen <= h.skip0 + h.fail0 THEN "fail"
    ELSE "pass"

\* C15: of the requests an interceptor installed with fail count failN and
\* skip count skipN sees, over any sequence of endpoint calls, the first skipN
\* are let through, the next failN are failed, each of these ending its call
\* with a non-nil error for the caller of the operation and without a
\* response, and every later one is let through; a request no interceptor
\* fails reaches the server and the operation returns what that answer
\* amounts to, no error on a success; without an interceptor no call is
\* intercepted.
C15_InterceptorWindow ==
    /\ \A k \in 1..Len(hooks) :
        LET h == hooks[k]
        IN /\ h.skipN = (IF h.seen < h.skip0 THEN h.skip0 - h.seen ELSE 0)
           /\ h.failN = (IF h.seen <= h.skip0 THEN h.fail0
                         ELSE IF h.seen <= h.skip0 + h.fail0
                         THEN h.fail0 - (h.seen - h.skip0)
                         ELSE 0)
           /\ h.verdict # "none" => h.verdict = Expected(h)
           /\ h.verdict = "fail" => tlast # NoCall /\ tlast.intercepted
    /\ tlast # NoCall =>
        /\ tlast.intercepted =>
            /\ \E k \in 1..Len(hooks) : hooks[k].verdict = "fail"
            /\ tlast.err # NilErr
            /\ tlast.err.kind = "APIError" /\ tlast.err.Code = 0
            /\ tlast.answer.resp = NilResp
        /\ ~tlast.intercepted =>
            /\ tlast.answer \in Answers(tlast.op)
            /\ tlast.err = OpReturn(tlast.op, tlast.answer).err
            /\ (tlast.answer.terr = NilErr /\ tlast.answer.resp # NilResp
                /\ IsSuccess(tlast.answer.resp)) => tlast.err = NilErr
        /\ hooks = <<>> => ~tlast.intercepted

\* skip = 0, fail = 1: the first call has failed, and the next one succeeded
C15_Witness ==
    /\ Len(hooks) = 1
    /\ hooks[1].skip0 = 0 /\ hooks[1].fail0 = 1
    /\ hooks[1].seen = 2
    /\ hooks[1].verdict = "pass"
    /\ tlast.op = "UpdateForm"
    /\ ~tlast.intercepted
    /\ tlast.err = NilErr
    /\ tlast.val = Id("id1")

\* C16: in the scenario of Test_FindForm (no FailRequest on the client), when
\* a FindForm call with the two And conditions has returned a result set and
\* no error, the next, identical FindForm call returns a non-nil error.
C16_FindFormScenario ==
    [][ ( /\ hooks = <<>> /\ hooks' = <<>>
          /\ tlast.op = "FindForm"
          /\ tlast.args.queries = TwoAndQueries
          /\ tlast.err = NilErr
          /\ tlast.val.kind = "ptr"
          /\ tlast'.op = "FindForm"
          /\ tlast'.nth = tlast.nth + 1
          /\ tlast'.args = tlast.args )
        => tlast'.err # NilErr ]_vars

\* what the server made of caller c's own request, as its operation is to
\* see it
OwnAnswer(c) ==
    LET k == callers[c]
    IN AnswerSeen(k.op, k.roundTrip, IF k.roundTrip.writes THEN k.roundTrip.detail ELSE ZeroDetail)

\* the client has the fields of the GoPayamgostar struct and no other
ClientFields == {"basePath", "restyClient", "Config"}

\* C17: no step of an endpoint operation, of any caller, changes the client
\* (base URL, endpoint path table, transport reference), which has no field
\* for a token or for a call; calls in progress at the same time have
\* request descriptors and error values of their own; a bearer request
\* carries the token its own caller passed; and what a call returns,
\* the token of authenticate included, is what its operation makes of the
\* server's answer to its own request, whatever other calls did.
C17_NoPerCallState ==
    /\ [][client' = client]_vars
    /\ [](/\ DOMAIN client = ClientFields
          /\ \A c \in Callers : callers[c].pc # "idle" =>
              LET k == callers[c]
              IN /\ k.sink \in DOMAIN sinks
                 /\ \A d \in Callers \ {c} : callers[d].pc # "idle" =>
                     /\ callers[d].id # k.id
                     /\ callers[d].sink # k.sink
                 /\ k.op \notin AuthOps => k.request.Token = k.args.accessToken
                 /\ k.pc = "done" =>
                     /\ k.ret = OpReturn(k.op, OwnAnswer(c))
                     /\ (k.op \in AuthOps /\ k.ret.err = NilErr) =>
                         k.ret.val = Ptr("JWT", k.roundTrip.body))

\* two calls in progress at once, both failed by the server with different
\* details; the first has returned
C17_Witness ==
    /\ callers["caller1"].pc = "done"
    /\ callers["caller2"].pc \in {"answered", "done"}
    /\ callers["caller1"].id < callers["caller2"].id
    /\ callers["caller1"].roundTrip.detail = HTTPErrorResponse(<<unknownErrorText, <<>>>>)
    /\ callers["caller2"].roundTrip.detail = HTTPErrorResponse(<<<<"b", "a", "d">>, <<>>>>)
    /\ callers["caller1"].ret.err # NilErr

\* C20: the body of every authenticate call in progress is the AuthRequest
\* of the caller's username and password with platformType 1 and a deviceId
\* generated for it; no two AuthRequests built so far have the same
\* deviceId; and the client is as NewClient made it, holding no deviceId.
C20_AuthRequestBody ==
    /\ \A i, j \in 1..Len(issued) : i # j => issued[i] # issued[j]
    /\ \A c \in Callers : (callers[c].pc # "idle" /\ callers[c].op \in AuthOps) =>
        LET k == callers[c]
        IN /\ k.request.Body.type = "AuthRequest"
           /\ k.request.Body.Username = k.args.username
           /\ k.request.Body.Password = k.args.password
           /\ k.request.Body.PlatformType = 1
           /\ \E i \in 1..Len(issued) : issued[i] = k.request.Body.DeviceId
           /\ \A d \in Callers \ {c} : (callers[d].pc # "idle" /\ callers[d].op \in AuthOps) =>
               callers[d].request.Body.DeviceId # k.request.Body.DeviceId
    /\ client = NewClient(CallersBasePath)
    /\ DOMAIN client = ClientFields

\* an AdminAuthenticate and a UserAuthenticate call of different users in
\* progress after an earlier authenticate call
C20_Witness ==
    /\ Len(issued) = 3
    /\ callers["caller1"].pc # "idle" /\ callers["caller1"].op = "AdminAuthenticate"
    /\ callers["caller2"].pc # "idle" /\ callers["caller2"].op = "UserAuthenticate"
    /\ callers["caller1"].args.username = "admin"
    /\ callers["caller2"].args.username = "guest"

----------------------------------------------------------------------------
(* encoding/json on bytes, as far as the codecs of models.go use it *)

Quote == "\""
Backslash == "\\"

\* a byte that is not valid UTF-8, and the character U+FFFD that encoding/json
\* puts in its place (each one element of a string)
BadByte == "xFF"
ReplacementChar == "uFFFD"
replacementEscape == <<Backslash, "u", "f", "f", "f", "d">>

\* the index of the first non-whitespace byte of s at or after i
RECURSIVE SkipSpace(_, _)
SkipSpace(s, i) == IF i <= Len(s) /\ s[i] = " " THEN SkipSpace(s, i + 1) ELSE i

ScanFailed == [ok |-> FALSE]

\* the JSON string whose opening quote is before s[i]: its characters
\* unescaped, and the index after its closing quote
RECURSIVE ScanChars(_, _, _)
ScanChars(s, i, acc) ==
    IF i > Len(s) THEN ScanFailed
    ELSE IF s[i] = Quote THEN
        [ok |-> TRUE, value |-> [kind |-> "string", val |-> acc], next |-> i + 1]
    ELSE IF s[i] = Backslash THEN
        IF i + 1 <= Len(s) /\ s[i + 1] \in {Quote, Backslash, "/"}
        THEN ScanChars(s, i + 2, Append(acc, s[i + 1]))
        ELSE IF HasPrefixAt(s, replacementEscape, i)
        THEN ScanChars(s, i + 6, Append(acc, ReplacementChar))
        ELSE ScanFailed
    ELSE IF s[i] = BadByte THEN ScanChars(s, i + 1, Append(acc, ReplacementChar))
    ELSE ScanChars(s, i + 1, Append(acc, s[i]))

\* the digits the model's inputs are written with
Digits == {"0", "1"}

nullLiteral == <<"n", "u", "l", "l">>
trueLiteral == <<"t", "r", "u", "e">>
falseLiteral == <<"f", "a", "l", "s", "e">>

\* the index after the run of digits that starts at s[i]
RECURSIVE SkipDigits(_, _)
SkipDigits(s, i) == IF i <= Len(s) /\ s[i] \in Digits THEN SkipDigits(s, i + 1) ELSE i

\* the JSON integer that starts at s[i]: an optional "-", then "0" alone or
\* a run of digits that does not begin with "0"
ScanNumber(s, i) ==
    LET j == IF s[i] = "-" THEN i + 1 ELSE i
    IN IF j > Len(s) \/ s[j] \notin Digits THEN ScanFailed
       ELSE [ok |-> TRUE, value |-> [kind |-> "number"],
             next |-> IF s[j] = "0" THEN j + 1 ELSE SkipDigits(s, j)]

\* the JSON value that starts at s[i], and the elements of an array after
\* its "[" or after a ","
RECURSIVE ScanValue(_, _), ScanElems(_, _, _)
ScanValue(s, i) ==
    IF i > Len(s) THEN ScanFailed
    ELSE IF s[i] = Quote THEN ScanChars(s, i + 1, <<>>)
    ELSE IF s[i] = "[" THEN
        LET j == SkipSpace(s, i + 1)
        IN IF j <= Len(s) /\ s[j] = "]"
           THEN [ok |-> TRUE, value |-> [kind |-> "array", elems |-> <<>>], next |-> j + 1]
           ELSE ScanElems(s, i + 1, <<>>)
    ELSE IF s[i] = "-" \/ s[i] \in Digits THEN ScanNumber(s, i)
    ELSE IF HasPrefixAt(s, nullLiteral, i) THEN
        [ok |-> TRUE, value |-> [kind |-> "null"], next |-> i + 4]
    ELSE IF HasPrefixAt(s, trueLiteral, i) THEN
        [ok |-> TRUE, value |-> [kind |-> "bool"], next |-> i + 4]
    ELSE IF HasPrefixAt(s, falseLiteral, i) THEN
        [ok |-> TRUE, value |-> [kind |-> "bool"], next |-> i + 5]
    ELSE ScanFailed

ScanElems(s, i, acc) ==
    LET v == ScanValue(s, SkipSpace(s, i))
    IN IF ~v.ok THEN ScanFailed
       ELSE LET j == SkipSpace(s, v.next)
            IN IF j > Len(s) THEN ScanFailed
               ELSE IF s[j] = "," THEN ScanElems(s, j + 1, Append(acc, v.value))
               ELSE IF s[j] = "]" THEN
                   [ok |-> TRUE, value |-> [kind |-> "array", elems |-> Append(acc, v.value)],
                    next |-> j + 1]
               ELSE ScanFailed

\* data as one JSON value between optional whitespace
ParseJSON(data) ==
    LET v == ScanValue(data, SkipSpace(data, 1))
    IN IF v.ok /\ SkipSpace(data, v.next) = Len(data) + 1 THEN v ELSE ScanFailed

SyntaxError == PlainError(<<"s", "y", "n", "t", "a", "x">>)
UnmarshalTypeError == PlainError(<<"t", "y", "p", "e">>)

\* json.Unmarshal(data, &obj) for var obj string; a JSON null leaves obj as
\* it was, the empty string
UnmarshalString(data) ==
    LET p == ParseJSON(data)
    IN IF ~p.ok THEN [err |-> SyntaxError, val |-> <<>>]
       ELSE IF p.value.kind = "null" THEN [err |-> NilErr, val |-> <<>>]
       ELSE IF p.value.kind # "string" THEN [err |-> UnmarshalTypeError, val |-> <<>>]
       ELSE [err |-> NilErr, val |-> p.value.val]

\* json.Unmarshal(data, &obj) for var obj []string; a JSON null leaves obj
\* nil, and a null element leaves that element the empty string
UnmarshalStrings(data) ==
    LET p == ParseJSON(data)
    IN IF ~p.ok THEN [err |-> SyntaxError, isNil |-> TRUE, val |-> <<>>]
       ELSE IF p.value.kind = "null" THEN [err |-> NilErr, isNil |-> TRUE, val |-> <<>>]
       ELSE IF p.value.kind # "array" THEN [err |-> UnmarshalTypeError, isNil |-> TRUE, val |-> <<>>]
       ELSE IF \E k \in 1..Len(p.value.elems) : p.value.elems[k].kind \notin {"string", "null"}
       THEN [err |-> UnmarshalTypeError, isNil |-> TRUE, val |-> <<>>]
       ELSE [err |-> NilErr, isNil |-> FALSE,
             val |-> [k \in 1..Len(p.value.elems) |->
                        IF p.value.elems[k].kind = "null" THEN <<>>
                        ELSE p.value.elems[k].val]]

\* the characters of a string as json.Marshal writes them between the quotes
RECURSIVE Escaped(_)
Escaped(str) ==
    IF Len(str) = 0 THEN <<>>
    ELSE (IF Head(str) \in {Quote, Backslash} THEN <<Backslash, Head(str)>>
          ELSE IF Head(str) = BadByte THEN replacementEscape
          ELSE <<Head(str)>>)
         \o Escaped(Tail(str))

\* json.Marshal(str) for a string
MarshalString(str) == <<Quote>> \o Escaped(str) \o <<Quote>>

RECURSIVE MarshalElems(_)
MarshalElems(elems) ==
    IF Len(elems) = 0 THEN <<>>
    ELSE IF Len(elems) = 1 THEN MarshalString(elems[1])
    ELSE MarshalString(elems[1]) \o <<",">> \o MarshalElems(Tail(elems))

\* json.Marshal(v) for a []string: a nil slice is written as null
MarshalStrings(v) ==
    IF v.isNil THEN <<"n", "u", "l", "l">>
    ELSE <<"[">> \o MarshalElems(v.elems) \o <<"]">>

----------------------------------------------------------------------------
(* StringOrArray *)

\* a faulty variant: decodes every input as a single string
StringOrArrayUnmarshalJSON_NoArray(s, data) ==
    LET r == UnmarshalString(data)
    IN IF r.err # NilErr THEN [s |-> s, err |-> r.err]
       ELSE [s |-> Slice(<<r.val>>), err |-> NilErr]

\* a faulty variant: the branch is chosen by the first byte after the leading
\* whitespace
StringOrArrayUnmarshalJSON_SkipsSpace(s, data) ==
    IF SkipSpace(data, 1) <= Len(data) /\ data[SkipSpace(data, 1)] = "[" THEN
        LET r == UnmarshalStrings(data)
        IN IF r.err # NilErr THEN [s |-> s, err |-> r.err]
           ELSE [s |-> [isNil |-> r.isNil, elems |-> r.val], err |-> NilErr]
    ELSE
        LET r == UnmarshalString(data)
        IN IF r.err # NilErr THEN [s |-> s, err |-> r.err]
           ELSE [s |-> Slice(<<r.val>>), err |-> NilErr]

\* (s *StringOrArray) UnmarshalJSON(data): the receiver afterwards, the error
StringOrArrayUnmarshalJSON(s, data) ==
    IF Len(data) > 1 /\ data[1] = "[" THEN
        LET r == UnmarshalStrings(data)
        IN IF r.err # NilErr THEN [s |-> s, err |-> r.err]
           ELSE [s |-> [isNil |-> r.isNil, elems |-> r.val], err |-> NilErr]
    ELSE
        LET r == UnmarshalString(data)
        IN IF r.err # NilErr THEN [s |-> s, err |-> r.err]
           ELSE [s |-> Slice(<<r.val>>), err |-> NilErr]

\* a faulty variant: writes an array whatever the length
StringOrArrayMarshalJSON_AlwaysArray(s) == MarshalStrings(s)

\* a faulty variant: writes the first element only, whatever the length
StringOrArrayMarshalJSON_FirstOnly(s) ==
    IF Len(s.elems) >= 1 THEN MarshalString(s.elems[1]) ELSE MarshalStrings(s)

\* (s *StringOrArray) MarshalJSON()
StringOrArrayMarshalJSON(s) ==
    IF Len(s.elems) = 1 THEN MarshalString(s.elems[1]) ELSE MarshalStrings(s)

----------------------------------------------------------------------------
(* EnforcedString *)

\* bytes.ReplaceAll(s, old, new) for a non-empty old
RECURSIVE ReplaceAll(_, _, _)
ReplaceAll(s, old, new) ==
    IF Len(s) = 0 THEN <<>>
    ELSE IF HasPrefixAt(s, old, 1)
    THEN new \o ReplaceAll(SubSeq(s, Len(old) + 1, Len(s)), old, new)
    ELSE <<Head(s)>> \o ReplaceAll(Tail(s), old, new)

\* the repair of bytes that do not begin with a quote
Repaired(data) ==
    <<Quote>>
    \o ReplaceAll(ReplaceAll(data, <<Quote>>, <<Backslash, Quote>>),
                  <<Backslash, Backslash, Quote>>, <<Backslash, Quote>>)
    \o <<Quote>>

\* (s *EnforcedString) UnmarshalJSON(data): the receiver afterwards, the
\* error, and whether the call panicked; data[0] of no bytes is an index out
\* of range
EnforcedStringUnmarshalJSON(s, data) ==
    IF Len(data) = 0 THEN [s |-> s, err |-> NilErr, panic |-> TRUE]
    ELSE LET r == UnmarshalString(IF data[1] # Quote THEN Repaired(data) ELSE data)
         IN [s |-> r.val, err |-> r.err, panic |-> FALSE]

\* a faulty variant: puts the value between quotes without escaping it
EnforcedStringMarshalJSON_Raw(s) == <<Quote>> \o s \o <<Quote>>

\* (s *EnforcedString) MarshalJSON()
EnforcedStringMarshalJSON(s) == MarshalString(s)

----------------------------------------------------------------------------
(* What a sender can put on the wire *)

\* most elements of a drawn array, and most bytes of a drawn raw input
MaxElems == 3
MaxRawLen == 3

ElemStrings ==
    { <<>>, <<"a">>, <<Quote>>, <<Backslash>>, <<"/">>, <<"a", " ", Quote>> }

RawBytes == { "[", "]", Quote, ",", "a", Backslash, " ", "1" }

\* JSON texts that are not strings: the other scalars, an ill-formed number,
\* and arrays whose elements are not all strings
LiteralInputs ==
    { nullLiteral, trueLiteral, falseLiteral, <<"0">>, <<"1", "0">>, <<"-", "1">>, <<"0", "1">>,
      <<"[">> \o nullLiteral \o <<"]">>,
      <<"[", Quote, "a", Quote, ",">> \o trueLiteral \o <<"]">>,
      <<" ", "[", Quote, "a", Quote, ",", Quote, "a", Quote, "]">> }

\* all sequences over S of length 0..n
SeqsUpTo(S, n) == UNION { [1..k -> S] : k \in 0..n }

\* a JSON encoding of str; escSlash: the sender writes "/" as "\/"
RECURSIVE RenderChars(_, _)
RenderChars(str, escSlash) ==
    IF Len(str) = 0 THEN <<>>
    ELSE (IF Head(str) \in {Quote, Backslash} \/ (escSlash /\ Head(str) = "/")
          THEN <<Backslash, Head(str)>>
          ELSE <<Head(str)>>)
         \o RenderChars(Tail(str), escSlash)

RenderString(str, escSlash) == <<Quote>> \o RenderChars(str, escSlash) \o <<Quote>>

\* a JSON encoding of the array A, starting at its "["; spaced: with
\* whitespace between the tokens
RenderArray(A, spaced, escSlash) ==
    LET pad == IF spaced THEN <<" ">> ELSE <<>>
    IN <<"[">> \o pad
       \o Join([k \in 1..Len(A) |-> RenderString(A[k], escSlash)], pad \o <<",">> \o pad)
       \o pad \o <<"]">>

\* the inputs: what was sent (ghost) and the bytes UnmarshalJSON is given
StringOrArrayInputs ==
    { [value |-> [kind |-> "array", elems |-> t[1]], bytes |-> RenderArray(t[1], t[2], t[3])] :
        t \in SeqsUpTo(ElemStrings, MaxElems) \X BOOLEAN \X BOOLEAN }
    \cup { [value |-> [kind |-> "string", val |-> t[1]], bytes |-> RenderString(t[1], t[2])] :
        t \in ElemStrings \X BOOLEAN }
    \cup { [value |-> [kind |-> "raw"], bytes |-> b] : b \in SeqsUpTo(RawBytes, MaxRawLen) }
    \cup { [value |-> [kind |-> "literal"], bytes |-> b] : b \in LiteralInputs }

----------------------------------------------------------------------------
(* Actions of the codecs, and their specification *)

\* s.UnmarshalJSON(data) on a StringOrArray s
DecodeStringOrArray ==
    /\ cpc = "start"
    /\ \E in \in StringOrArrayInputs :
        LET r == StringOrArrayUnmarshalJSON(recv, in.bytes)
        IN /\ wire' = in.bytes
           /\ sent' = in.value
           /\ recv' = r.s
           /\ uerr' = r.err
    /\ out' = <<>>
    /\ cpc' = "unmarshalled"
    /\ UNCHANGED outsideCodec

\* s.MarshalJSON() on the same s
EncodeStringOrArray ==
    /\ cpc = "unmarshalled"
    /\ out' = StringOrArrayMarshalJSON(recv)
    /\ cpc' = "marshalled"
    /\ UNCHANGED <<wire, sent, recv, uerr>>
    /\ UNCHANGED outsideCodec

\* the value goes out of scope; the next one is a fresh var s StringOrArray
DropCodecValue ==
    /\ cpc = "marshalled"
    /\ wire' = <<>>
    /\ sent' = [kind |-> "none"]
    /\ recv' = NilSlice
    /\ uerr' = NilErr
    /\ out' = <<>>
    /\ cpc' = "start"
    /\ UNCHANGED outsideCodec

InitCodec ==
    /\ client = NewClient(<<"h">>)
    /\ NoCallYet
    /\ CodecAtStart
    /\ EnforcedAtStart
    /\ TestsAtStart
    /\ CallersAtStart

NextCodec ==
    \/ DecodeStringOrArray
    \/ EncodeStringOrArray
    \/ DropCodecValue

SpecCodec == InitCodec /\ [][NextCodec]_vars

----------------------------------------------------------------------------
(* Actions of EnforcedString, and their specification *)

\* most bytes of a drawn payload, and most characters of a drawn value
MaxPayloadLen == 3

EnforcedBytes == { Quote, Backslash, "a", "1", BadByte }
EnforcedPayloads == SeqsUpTo(EnforcedBytes, MaxPayloadLen)

\* s.UnmarshalJSON on a fresh s, given a payload between quotes
DecodeQuotedEnforcedString ==
    /\ epc = "start"
    /\ \E data \in EnforcedPayloads :
        /\ ewire' = data
        /\ eq' = EnforcedStringUnmarshalJSON(<<>>, <<Quote>> \o data \o <<Quote>>)
    /\ epc' = "quoted"
    /\ UNCHANGED <<ea, eval, eout, eb>>
    /\ UNCHANGED outsideEnforced

\* s.UnmarshalJSON on another fresh s, given the same payload as it is; a
\* panic ends the run
DecodeEnforcedString ==
    /\ epc = "quoted"
    /\ ea' = EnforcedStringUnmarshalJSON(<<>>, ewire)
    /\ epc' = IF ea'.panic THEN "panicked" ELSE "unmarshalled"
    /\ UNCHANGED <<ewire, eq, eval, eout, eb>>
    /\ UNCHANGED outsideEnforced

\* s.MarshalJSON() on an EnforcedString the program holds
EncodeEnforcedString ==
    /\ epc = "start"
    /\ \E v \in EnforcedPayloads :
        /\ eval' = v
        /\ eout' = EnforcedStringMarshalJSON(v)
    /\ epc' = "marshalled"
    /\ UNCHANGED <<ewire, eq, ea, eb>>
    /\ UNCHANGED outsideEnforced

\* s.UnmarshalJSON on a fresh s, given what MarshalJSON returned
DecodeEncodedEnforcedString ==
    /\ epc = "marshalled"
    /\ eb' = EnforcedStringUnmarshalJSON(<<>>, eout)
    /\ epc' = IF eb'.panic THEN "panicked" ELSE "redecoded"
    /\ UNCHANGED <<ewire, eq, ea, eval, eout>>
    /\ UNCHANGED outsideEnforced

\* the values an EnforcedString holds before it is decoded into again
HeldValues == { <<>>, <<"a">>, <<"a", Quote>> }

\* s.UnmarshalJSON on an s that holds a value already; a panic ends the run
DecodeOverEnforcedString ==
    /\ epc = "start"
    /\ \E held \in HeldValues, data \in EnforcedPayloads :
        /\ eval' = held
        /\ ewire' = data
        /\ eb' = EnforcedStringUnmarshalJSON(held, data)
        /\ epc' = IF eb'.panic THEN "panicked" ELSE "overwritten"
    /\ UNCHANGED <<eq, ea, eout>>
    /\ UNCHANGED outsideEnforced

\* the values go out of scope
DropEnforcedStrings ==
    /\ epc \in {"unmarshalled", "redecoded", "overwritten"}
    /\ ewire' = <<>>
    /\ eq' = NotCalled
    /\ ea' = NotCalled
    /\ eval' = <<>>
    /\ eout' = <<>>
    /\ eb' = NotCalled
    /\ epc' = "start"
    /\ UNCHANGED outsideEnforced

InitEnforced == InitCodec

NextEnforced ==
    \/ DecodeQuotedEnforcedString
    \/ DecodeEnforcedString
    \/ EncodeEnforcedString
    \/ DecodeEncodedEnforcedString
    \/ DecodeOverEnforcedString
    \/ DropEnforcedStrings

SpecEnforced == InitEnforced /\ [][NextEnforced]_vars

----------------------------------------------------------------------------
(* Properties of the codecs *)

\* C10: for every JSON array of strings A with more than one element, given
\* to UnmarshalJSON as its encoding from the "[" on (compact or with
\* whitespace between the tokens, with either escaping of "/"),
\* UnmarshalJSON succeeds and holds the elements of A in order, and
\* MarshalJSON then writes A as a JSON array: "[", the elements of A as JSON
\* strings in the same order, separated by ",", and "]".
C10_ArrayRoundTrip ==
    (cpc \in {"unmarshalled", "marshalled"} /\ sent.kind = "array" /\ Len(sent.elems) > 1) =>
        /\ uerr = NilErr
        /\ recv = Slice(sent.elems)
        /\ cpc = "marshalled" => out = RenderArray(sent.elems, FALSE, FALSE)

C10_Witness ==
    /\ cpc = "marshalled"
    /\ sent.kind = "array"
    /\ sent.elems = << <<"a">>, <<"/">>, <<"a", " ", Quote>> >>
    /\ wire = RenderArray(sent.elems, TRUE, TRUE)
    /\ wire # out
    /\ out = <<"[", Quote, "a", Quote, ",", Quote, "/", Quote, ",",
               Quote, "a", " ", Backslash, Quote, Quote, "]">>

\* C11: for every JSON array [x] of one string, given to UnmarshalJSON as its
\* encoding from the "[" on, the StringOrArray holds the one-element sequence
\* <<x>>, and MarshalJSON then writes the bare JSON string x, not the array.
C11_SingletonCollapses ==
    (cpc \in {"unmarshalled", "marshalled"} /\ sent.kind = "array" /\ Len(sent.elems) = 1) =>
        /\ uerr = NilErr
        /\ recv = Slice(<<sent.elems[1]>>)
        /\ cpc = "marshalled" =>
            /\ out = RenderString(sent.elems[1], FALSE)
            /\ out # RenderArray(sent.elems, FALSE, FALSE)

C11_Witness ==
    /\ cpc = "marshalled"
    /\ sent.kind = "array"
    /\ sent.elems = << <<"a", " ", Quote>> >>
    /\ wire = <<"[", " ", Quote, "a", " ", Backslash, Quote, Quote, " ", "]">>
    /\ recv = Slice(<< <<"a", " ", Quote>> >>)
    /\ out = <<Quote, "a", " ", Backslash, Quote, Quote>>

\* what the bytes are as a JSON text (whitespace around the value allowed)
IsJSONString(data) == ParseJSON(data).ok /\ ParseJSON(data).value.kind = "string"
IsJSONScalar(data) ==
    ParseJSON(data).ok /\ ParseJSON(data).value.kind \in {"string", "number", "bool", "null"}
IsJSONArrayOfStrings(data) ==
    /\ ParseJSON(data).ok
    /\ ParseJSON(data).value.kind = "array"
    /\ \A k \in 1..Len(ParseJSON(data).value.elems) :
          ParseJSON(data).value.elems[k].kind = "string"

\* the strings of a JSON array of strings, in order
JSONStrings(data) ==
    [k \in 1..Len(ParseJSON(data).value.elems) |-> ParseJSON(data).value.elems[k].val]

\* C12 as stated: UnmarshalJSON never fails for a well-formed JSON scalar or
\* a well-formed JSON array of strings, and fails only for bytes that are
\* neither a valid JSON string nor a valid JSON array of strings.
C12_Original ==
    cpc = "unmarshalled" =>
        /\ (IsJSONScalar(wire) \/ IsJSONArrayOfStrings(wire)) => uerr = NilErr
        /\ uerr # NilErr => ~(IsJSONString(wire) \/ IsJSONArrayOfStrings(wire))

\* C12: UnmarshalJSON never fails for a well-formed JSON string, nor for a
\* well-formed JSON array of strings whose "[" is the first byte, and then
\* holds the string alone, or the strings of the array in order; when it
\* fails, the error is the one json.Unmarshal returned and the bytes are
\* neither of these; a JSON number, true or false fails with the decoder's
\* type error.
C12_DecodeStringsOrFail ==
    cpc = "unmarshalled" =>
        /\ IsJSONString(wire) =>
            uerr = NilErr /\ recv = Slice(<<ParseJSON(wire).value.val>>)
        /\ (IsJSONArrayOfStrings(wire) /\ wire[1] = "[") =>
            uerr = NilErr /\ recv = Slice(JSONStrings(wire))
        /\ sent.kind = "string" => recv = Slice(<<sent.val>>)
        /\ sent.kind = "array" => recv = Slice(sent.elems)
        /\ uerr # NilErr =>
            /\ uerr \in {SyntaxError, UnmarshalTypeError}
            /\ ~IsJSONString(wire)
            /\ ~(IsJSONArrayOfStrings(wire) /\ wire[1] = "[")
        /\ (ParseJSON(wire).ok /\ ParseJSON(wire).value.kind \in {"number", "bool"}) =>
            uerr = UnmarshalTypeError

C12_Witness ==
    /\ cpc = "unmarshalled"
    /\ wire = <<"[", Quote, "]">>
    /\ ~ParseJSON(wire).ok
    /\ uerr = SyntaxError
    /\ recv = NilSlice

\* C13: for every string s without a quote character, the empty string
\* included, UnmarshalJSON of the bytes s and UnmarshalJSON of the bytes "s"
\* both succeed or both fail, and hold the same value when they succeed.
C13_QuotedAndUnquotedAgree ==
    (epc \in {"unmarshalled", "panicked"} /\ ~Contains(ewire, <<Quote>>)) =>
        /\ ~ea.panic
        /\ ~eq.panic
        /\ (ea.err = NilErr) <=> (eq.err = NilErr)
        /\ ea.err = NilErr => ea.s = eq.s

\* the strings json.Marshal writes back unchanged: those of valid UTF-8
ValidUTF8(v) == \A k \in 1..Len(v) : v[k] # BadByte

\* C14 as stated: for every EnforcedString value v, MarshalJSON writes a
\* quoted JSON string and UnmarshalJSON of it holds v again.
C14_Original ==
    epc = "redecoded" =>
        /\ eout[1] = Quote
        /\ IsJSONString(eout)
        /\ eb.err = NilErr
        /\ eb.s = eval

\* C14: for every EnforcedString value v that is valid UTF-8, MarshalJSON
\* writes a JSON string that begins with a quote (so UnmarshalJSON does not
\* repair it), and UnmarshalJSON of that output succeeds and holds v again;
\* for any v the output is a quoted JSON string and decodes without error
\* and without a panic.
C14_EncodeThenDecode ==
    /\ epc \in {"marshalled", "redecoded"} =>
        /\ eout[1] = Quote
        /\ IsJSONString(eout)
    /\ ~(epc = "panicked" /\ eout # <<>>)
    /\ epc = "redecoded" =>
        /\ eb.err = NilErr
        /\ ValidUTF8(eval) => eb.s = eval

C14_Witness ==
    /\ epc = "redecoded"
    /\ eval = <<Quote, Backslash, "a">>
    /\ eout = <<Quote, Backslash, Quote, Backslash, Backslash, "a", Quote>>
    /\ eb = [s |-> eval, err |-> NilErr, panic |-> FALSE]


\* C21: no call of EnforcedString.UnmarshalJSON, whatever bytes it is given,
\* the empty sequence included, panics: every failure comes back as the
\* error the call returns.
C21_NoPanic ==
    /\ epc # "panicked"
    /\ ~eq.panic
    /\ ~ea.panic
    /\ ~eb.panic


\* C22: a call of an endpoint operation hands one request to the transport
\* (one Post); the transport makes at most RetryCount + 1 attempts of it, more
\* than one only after an answer that meets the caller's retry condition; and
\* when an interceptor fails an attempt, that attempt is the call's last and
\* the operation returns a non-nil error: in the first call of a client the
\* attempts made are exactly those the interceptor saw, the failed one last.
C22_NoInternalRetry ==
    tlast # NoCall =>
        /\ tlast.posts = 1
        /\ tlast.requests \in 1..(RetryCount + 1)
        /\ tlast.intercepted =>
            /\ tlast.err # NilErr
            /\ \A k \in 1..Len(hooks) :
                hooks[k].verdict = "fail" => hooks[k].seen <= hooks[k].skip0 + hooks[k].fail0
        /\ (~tlast.intercepted /\ tlast.requests > 1 /\ tlast.requests < RetryCount + 1) =>
            ~cond(tlast.answer.resp, tlast.answer.terr)
        /\ (tlast.nth = 1 /\ Len(hooks) = 1) =>
            LET h == hooks[1]
            IN /\ (h.seen > 0 /\ h.seen <= h.skip0 + h.fail0) =>
                   /\ tlast.requests = h.seen
                   /\ tlast.intercepted <=> h.seen > h.skip0
               /\ (h.seen > 0 /\ h.skip0 = 0 /\ h.fail0 > 0) =>
                   tlast.intercepted /\ tlast.requests = 1

\* retries configured, the first attempt answered with a retryable failure,
\* the interceptor fails the second attempt: DeletePurchase returns the error
\* after two attempts, not eleven
C22_Witness ==
    /\ tlast.op = "DeletePurchase"
    /\ tlast.nth = 1
    /\ Len(hooks) = 1
    /\ hooks[1].skip0 = 1 /\ hooks[1].fail0 = 1
    /\ hooks[1].seen = 2
    /\ tlast.intercepted
    /\ tlast.requests = 2
    /\ tlast.err # NilErr


\* the first byte of data after its leading whitespace is "["
ArrayAfterSpace(data) == SkipSpace(data, 1) <= Len(data) /\ data[SkipSpace(data, 1)] = "["

\* the bytes were decoded as an array of strings
DecodedAsArray ==
    /\ uerr = UnmarshalStrings(wire).err
    /\ uerr = NilErr =>
        recv = [isNil |-> UnmarshalStrings(wire).isNil, elems |-> UnmarshalStrings(wire).val]

\* the bytes were decoded as one string, wrapped in a one-element sequence
DecodedAsString ==
    /\ uerr = UnmarshalString(wire).err
    /\ uerr = NilErr => recv = Slice(<<UnmarshalString(wire).val>>)

\* C23 as stated: the branch goes by the first non-whitespace byte: "[" is
\* decoded as an array of strings, anything else as a single string wrapped
\* in a one-element sequence, also with leading whitespace and for "[]".
C23_Original ==
    cpc = "unmarshalled" =>
        IF ArrayAfterSpace(wire) THEN DecodedAsArray ELSE DecodedAsString

\* C23: the branch goes by the first byte: an input of more than one byte
\* whose first byte is "[" is decoded as an array of strings, "[]" to the
\* empty sequence, and anything else as a single string wrapped in a
\* one-element sequence; an input with whitespace before its "[" is decoded
\* as a single string, which fails with an error.
C23_BranchByFirstByte ==
    cpc = "unmarshalled" =>
        /\ IF Len(wire) > 1 /\ wire[1] = "[" THEN DecodedAsArray ELSE DecodedAsString
        /\ wire = <<"[", "]">> => uerr = NilErr /\ recv = Slice(<<>>)
        /\ (Len(wire) > 1 /\ wire[1] = "[" /\ IsJSONArrayOfStrings(wire)) =>
            uerr = NilErr /\ recv = Slice(JSONStrings(wire))
        /\ (ArrayAfterSpace(wire) /\ wire[1] # "[") =>
            uerr \in {SyntaxError, UnmarshalTypeError} /\ recv = NilSlice

\* a well-formed array of two strings after one blank: UnmarshalJSON fails
C23_Witness ==
    /\ cpc = "unmarshalled"
    /\ wire = <<" ", "[", Quote, "a", Quote, ",", Quote, "a", Quote, "]">>
    /\ IsJSONArrayOfStrings(wire)
    /\ uerr = UnmarshalTypeError
    /\ recv = NilSlice


\* C24: MarshalJSON writes a bare JSON string if and only if the sequence
\* has exactly one element; for every other length, the empty and the nil
\* sequence included, it writes a JSON array.
C24_BareStringIffOne ==
    cpc = "marshalled" =>
        /\ IsJSONString(out) <=> Len(recv.elems) = 1
        /\ Len(recv.elems) # 1 => ParseJSON(out).ok /\ ParseJSON(out).value.kind = "array"


\* the string an unquoted payload stands for when each of its quotes, escaped
\* or not, is a literal quote and each escaped backslash a backslash; ok: the
\* payload has no other escape and no backslash at its end
RECURSIVE LiteralOf(_)
LiteralOf(p) ==
    IF Len(p) = 0 THEN [ok |-> TRUE, val |-> <<>>]
    ELSE IF Head(p) = Backslash
    THEN IF Len(p) >= 2 /\ p[2] \in {Backslash, Quote}
         THEN LET rest == LiteralOf(SubSeq(p, 3, Len(p)))
              IN [ok |-> rest.ok, val |-> <<p[2]>> \o rest.val]
         ELSE [ok |-> FALSE, val |-> <<>>]
    ELSE LET rest == LiteralOf(Tail(p))
         IN [ok |-> rest.ok, val |-> <<Head(p)>> \o rest.val]

\* C25: bytes that begin with a quote are decoded as they are, by the
\* standard JSON string decoding; bytes that do not are repaired first, and
\* an unquoted payload with embedded quotes, escaped or not, then decodes
\* without error to the string with those quotes kept literally.
C25_RepairKeepsQuotes ==
    /\ epc \in {"quoted", "unmarshalled"} =>
        /\ ~eq.panic
        /\ eq.err = UnmarshalString(<<Quote>> \o ewire \o <<Quote>>).err
        /\ eq.s = UnmarshalString(<<Quote>> \o ewire \o <<Quote>>).val
    /\ (/\ epc = "unmarshalled"
        /\ ewire # <<>>
        /\ ewire[1] # Quote
        /\ \E k \in 1..Len(ewire) : ewire[k] = Quote
        /\ ValidUTF8(ewire)
        /\ LiteralOf(ewire).ok) =>
        /\ ea.err = NilErr
        /\ ea.s = LiteralOf(ewire).val


\* the tracing headers of a request, and who injected them
TraceHeaders(r) == { h \in r.Header : h[1] = "Trace" }

\* C26: the request a builder returns has tracing headers only if the
\* context carries a span: with no span it has none; with a span they are
\* injected by the tracer the context carries, and by the global tracer when
\* it carries none; when the injection fails the request is returned all
\* the same, with no error; GetRequest sets no other header.
C26_TracingHeaders ==
    op \in RequestBuilders =>
        /\ req # NoRequest /\ req.ctx = args.ctx /\ retErr = NilErr
        /\ ~args.ctx.span => TraceHeaders(req) = {}
        /\ (args.ctx.span /\ args.ctx.injectOK /\ args.ctx.tracer # "nil") =>
            TraceHeaders(req) = {<<"Trace", args.ctx.tracer>>}
        /\ (args.ctx.span /\ args.ctx.injectOK /\ args.ctx.tracer = "nil") =>
            TraceHeaders(req) = {<<"Trace", "global">>}
        /\ op = "GetRequest" => req.Header = TraceHeaders(req)

\* a span and a tracer of its own in the context: that tracer injects
C26_Witness ==
    /\ op = "GetRequest"
    /\ args.ctx.span
    /\ args.ctx.tracer = "ctxTracer"
    /\ args.ctx.injectOK
    /\ req.Header = {<<"Trace", "ctxTracer">>}


\* C27: whenever the transport error is not nil, checkForError returns an
\* error with Code 0 whose message is the context message, ": ", and the
\* transport error's text, whether the response is absent, a success or a
\* failure with a detail: status code and detail of the response are ignored.
C27_TransportErrorFirst ==
    (Called /\ terr # NilErr) =>
        /\ classified.kind = "APIError"
        /\ classified.Code = 0
        /\ classified.Message = ctxMsg \o ColonSpace \o ErrorText(terr)
        /\ classified = checkForError(NilResp, terr, ctxMsg)

\* a transport error together with a 404 response that carries a detail
C27_Witness ==
    /\ op = "checkForError"
    /\ terr # NilErr
    /\ resp # NilResp
    /\ resp.StatusCode = 404
    /\ resp.Error = HTTPErrorResponse(<<invalidGrantNeedle, <<"n", "o">>>>)
    /\ classified.Code = 0
    /\ classified.Message = ctxMsg \o ColonSpace \o ErrorText(terr)


\* C28: every error checkForError returns when the transport error is nil,
\* for an absent response or for a response with a failure status, has the
\* category "unknown", also when the server's error detail, and with it the
\* returned message, contains the invalid-grant text.
C28_UnknownWithoutTransportError ==
    (Called /\ terr = NilErr /\ classified # NilErr) =>
        /\ resp = NilResp \/ IsError(resp)
        /\ classified.Type = APIErrTypeUnknown

\* a 400 whose detail says invalid_grant: the message has the text, the
\* category is "unknown"
C28_Witness ==
    /\ Called
    /\ terr = NilErr
    /\ resp # NilResp
    /\ resp.StatusCode = 400
    /\ resp.Error = HTTPErrorResponse(<<invalidGrantNeedle, <<"n", "o">>>>)
    /\ Contains(classified.Message, invalidGrantNeedle)
    /\ classified.Type = APIErrTypeUnknown


\* the operations that return the identifier getID extracts
IdOps == {"CreatePurchase", "UpdateForm"}

\* C29: when checkForError passes the response, CreatePurchase and
\* UpdateForm return the string of the crmId member of the body with a nil
\* error; for a body that is valid JSON without a crmId member (an object
\* without it, or null) they return the empty identifier with a nil error;
\* in every other case they return the empty identifier with an error.
C29_IdFromCrmId ==
    (op \in IdOps /\ classified = NilErr) =>
        /\ (resp.Body.kind = "object" /\ resp.Body.crmId \notin {"absent", "number"}) =>
            retErr = NilErr /\ retVal = Id(resp.Body.crmId)
        /\ (resp.Body.kind = "null" \/ (resp.Body.kind = "object" /\ resp.Body.crmId = "absent")) =>
            retErr = NilErr /\ retVal = Id("")
        /\ retErr # NilErr => retVal = Id("")
        /\ (resp.Body.kind \in {"empty", "invalid", "array"} \/ resp.Body.crmId = "number") =>
            retErr # NilErr

\* a 200 whose body is an object without crmId: empty identifier, no error
C29_Witness ==
    /\ op = "UpdateForm"
    /\ terr = NilErr
    /\ resp # NilResp
    /\ resp.StatusCode = 200
    /\ resp.Body = Body("object", "absent", "list")
    /\ retErr = NilErr
    /\ retVal = Id("")


\* C30: when EnforcedString.UnmarshalJSON fails, it returns the error and
\* the receiver holds the value it held before the call.
C30_FailedDecodeKeepsValue ==
    (epc = "overwritten" /\ eb.err # NilErr) => eb.s = eval

====
